---- MODULE Spec2Model ----
(***************************************************************************)
(* Verification model of the WhatsApp-web.py client library:               *)
(*   - the binary node codec            (src/wawspy/protocol.py)           *)
(*   - the threaded connection handler  (src/wawspy/connection.py)         *)
(*   - the threaded "real" client       (src/wawspy/real_client.py)        *)
(*   - the asyncio connection + client  (src/whatsapp_web_py_improved/)    *)
(* Every subsystem has its own specification; the variables of the other   *)
(* subsystems stay at their initial values under it.                       *)
(***************************************************************************)
EXTENDS Integers, Sequences, FiniteSets, TLC

VARIABLES
    \* ---- codec harness (WANode.create / add_child / encode / decode)
    node,        \* the node under construction by the builder
    buffer,      \* WABinaryEncoder.buffer after encode(), as a byte sequence
    encErr,      \* TRUE when encode() raised
    decoded,     \* outcome of WANode.decode(buffer): [err, val]
    cpc          \* codec harness position: "build" | "encoded" | "decoded"

codecVars == <<node, buffer, encErr, decoded, cpc>>

VARIABLES
    \* ---- wawspy/connection.py WAConnection
    ws,                  \* self.ws: 0 is None, else the id of a WebSocketApp
    connected,           \* self.connected
    authenticated,       \* self.authenticated
    client_token,        \* self.client_token
    server_token,        \* self.server_token
    reconnect_attempts,  \* self.reconnect_attempts
    keepalive_workers,   \* number of live keepalive_worker threads
    sock,                \* per WebSocketApp: "free" | "connecting" | "open" | "closing" | "closed"
    tpc,                 \* per WebSocketApp: position of its run_forever thread
    upc,                 \* position of the caller's thread
    dcall,               \* the disconnect() call in progress: what it saw and did
    user_closed,         \* disconnect() was called and connect() not yet called again
    ev                   \* what the last step did (operation, result, writes, callbacks)

connVars == <<ws, connected, authenticated, client_token, server_token,
              reconnect_attempts, keepalive_workers, sock, tpc,
              upc, dcall, user_closed, ev>>


VARIABLES
    \* ---- whatsapp_web_py_improved: WAConnection, WAClient, EventEmitter
    i_state,             \* connection._state
    i_authenticated,     \* connection._authenticated
    i_closing,           \* connection._closing
    i_ws,                \* connection.ws: "none" is None, else the state of the transport
    i_client_token,      \* connection.client_token
    i_server_token,      \* connection.server_token
    attempt_count,       \* connection.reconnect_manager.attempt_count
    i_listener,          \* the _listen_for_messages task and the transport it reads
    i_keepalive,         \* the _keepalive_loop task
    i_stop,              \* _stop_keepalive tasks created and not yet run
    i_task,              \* position of the application's coroutine (0) and of the reconnect tasks
    c_authenticated,     \* client._authenticated
    qr_code,             \* client.qr_code
    i_listeners,         \* event_emitter._listeners
    i_once,              \* event_emitter._once_listeners
    i_fails,             \* reconnect attempts that failed since the last successful connect
    i_handled,           \* calls of _handle_connection_closed since the state last became Connected
    i_ev                 \* what the last step did

impVars == <<i_state, i_authenticated, i_closing, i_ws, i_client_token, i_server_token,
             attempt_count, i_listener, i_keepalive, i_stop, i_task,
             c_authenticated, qr_code, i_listeners, i_once, i_fails, i_handled, i_ev>>

VARIABLES
    \* ---- wawspy/real_client.py: WAClient
    r_state,             \* connection_state
    r_attempts,          \* reconnect_attempts
    r_authenticated,     \* authenticated
    r_client_token,      \* client_token
    r_server_token,      \* server_token
    r_ws,                \* ws: 0 is None, else the WebSocketApp created last
    r_sock,              \* per WebSocketApp: state of its socket
    r_tpc,               \* per WebSocketApp: position of its run_forever thread
    r_upc,               \* position of the caller's thread
    r_timers,            \* Timers started by reconnect() that have not fired
    r_tconn,             \* Timer threads inside connect()
    r_keepalive,         \* Timers started by _start_keepalive that have not fired
    r_callbacks,         \* the application registered its callbacks
    r_pending,           \* pending_requests: the tags registered
    r_ev                 \* what the last step did

realVars == <<r_state, r_attempts, r_authenticated, r_client_token, r_server_token,
              r_ws, r_sock, r_tpc, r_upc, r_timers, r_tconn, r_keepalive,
              r_callbacks, r_pending, r_ev>>

VARIABLES
    \* ---- reconnection back-off (ReconnectionManager, ReconnectionStrategy)
    b_impl,              \* which of the three classes the manager is
    b_attempt_count,     \* attempt_count
    b_calls,             \* next-delay calls since the last reset (0, 1, 2 or more)
    b_prev,              \* what the call before the last returned
    b_last               \* what the last call returned

backoffVars == <<b_impl, b_attempt_count, b_calls, b_prev, b_last>>

VARIABLES
    \* ---- encryption (SignalProtocol, WAEncryption)
    c_class,             \* which of the two classes the process uses
    sp_sessions,         \* SignalProtocol.sessions, per peer
    sp_files,            \* the files sessions/<peer>.json
    sp_blob,             \* the last blob encrypt_message returned
    sp_ev,               \* the last SignalProtocol call and its outcome
    wa_keys,             \* WAEncryption.enc_key, mac_key
    wa_blob,             \* the last blob WAEncryption.encrypt_message returned
    wa_ev                \* the last WAEncryption call and its outcome

spVars == <<sp_sessions, sp_files, sp_blob, sp_ev>>
waVars == <<wa_keys, wa_blob, wa_ev>>
cryptoVars == <<c_class, spVars, waVars>>

VARIABLES
    \* ---- message tags (_generate_message_tag, generate_message_tag)
    message_tag_counter, \* WAClient.message_tag_counter
    tg_clock,            \* what time.time() returns now
    tg_pc,               \* each calling thread's position and the value it read
    tg_tags              \* the tags returned so far, in order

tagVars == <<message_tag_counter, tg_clock, tg_pc, tg_tags>>

VARIABLES
    \* ---- socket writes of wawspy/connection.py
    w_connected,         \* self.connected
    w_ws,                \* self.ws is a transport (not None)
    w_lock,              \* the thread that holds self.lock, or NoWriter
    w_pc                 \* each sending thread's position

writeVars == <<w_connected, w_ws, w_lock, w_pc>>

VARIABLES
    \* ---- pairing-code authentication (wawspy/auth.py WAAuthentication)
    pairing_ref,         \* self.pairing_ref: NoRef, or the time it was issued at
    pairing_code,        \* self.pairing_code
    a_authenticated,     \* self.authenticated
    a_auth_info,         \* the pairing_ref recorded in self.auth_info, or NoRef
    a_clock,             \* what time.time() returns now
    a_verified,          \* successful verifications of the current challenge
    a_ev                 \* the last call and its outcome

authVars == <<pairing_ref, pairing_code, a_authenticated, a_auth_info, a_clock, a_verified, a_ev>>

\* the variables each subsystem leaves alone
notCodec == <<connVars, impVars, realVars, backoffVars, cryptoVars, tagVars, writeVars, authVars>>
notConn == <<codecVars, impVars, realVars, backoffVars, cryptoVars, tagVars, writeVars, authVars>>
notImp == <<codecVars, connVars, realVars, backoffVars, cryptoVars, tagVars, writeVars, authVars>>
notReal == <<codecVars, connVars, impVars, backoffVars, cryptoVars, tagVars, writeVars, authVars>>
notBackoff == <<codecVars, connVars, impVars, realVars, cryptoVars, tagVars, writeVars, authVars>>

notCrypto == <<codecVars, connVars, impVars, realVars, backoffVars, tagVars, writeVars, authVars>>
notTag == <<codecVars, connVars, impVars, realVars, backoffVars, cryptoVars, writeVars, authVars>>
notWrite == <<codecVars, connVars, impVars, realVars, backoffVars, cryptoVars, tagVars, authVars>>
notAuth == <<codecVars, connVars, impVars, realVars, backoffVars, cryptoVars, tagVars, writeVars>>

(***************************************************************************)
(* Python values.  A str is a sequence of code points, bytes a sequence of *)
(* 0..255; the kind field keeps str and bytes apart, as Python's == does.  *)
(***************************************************************************)
None == [k |-> "none", v |-> <<>>]
Str(s) == [k |-> "str", v |-> s]
Bytes(b) == [k |-> "bytes", v |-> b]
List(items) == [k |-> "list", v |-> items]

\* F applied to the value of v, v being evaluated once
Bind(v, F(_)) == CHOOSE r \in {F(x) : x \in {v}} : TRUE

Min(a, b) == IF a < b THEN a ELSE b

\* s[from..to] of a sequence, 1-based and clipped the way a Python slice is
Slice(s, from, to) == [i \in 1..(IF Min(to, Len(s)) >= from THEN Min(to, Len(s)) - from + 1 ELSE 0) |-> s[from + i - 1]]

\* x in s (single character / byte membership)
Contains(s, x) == \E i \in 1..Len(s) : s[i] = x

\* needle in s (substring test), both sequences
HasSubstr(s, needle) ==
    \E i \in 0..(Len(s) - Len(needle)) : \A j \in 1..Len(needle) : s[i + j] = needle[j]

AT == 64   \* ord('@')

(***************************************************************************)
(* WATag: the wire markers and the token dictionary.                       *)
(***************************************************************************)
LIST_EMPTY == 0
DICTIONARY_0 == 236
DICTIONARY_1 == 237
DICTIONARY_2 == 238
DICTIONARY_3 == 239
LIST_8 == 248
LIST_16 == 249
JID_PAIR == 250
HEX_8 == 251
BINARY_8 == 252
BINARY_20 == 253
BINARY_32 == 254
NIBBLE_8 == 255
SINGLE_BYTE_MAX == 256

\* WATag.TOKENS, entry i of the Python list at position i + 1; None is <<>>
TOKENS ==
  <<
    <<>>, <<>>, <<>>, <<>>, <<>>, <<53>>, <<54>>, <<55>>, <<56>>, <<57>>, <<49,48>>, <<>>,
    <<49,50>>, <<>>, <<>>, <<>>, <<49,54>>, <<49,55>>, <<49,56>>, <<49,57>>, <<50,48>>,
    <<50,49>>, <<50,50>>, <<50,51>>, <<50,52>>, <<50,53>>, <<50,54>>, <<50,55>>, <<50,56>>,
    <<50,57>>, <<51,48>>, <<51,49>>, <<32>>, <<49>>, <<50>>, <<51>>, <<52>>, <<53>>, <<54>>,
    <<55>>, <<56>>, <<57>>, <<58>>, <<59>>, <<60>>, <<61>>, <<62>>, <<63>>, <<64>>, <<65>>,
    <<66>>, <<67>>, <<68>>, <<69>>, <<70>>, <<71>>, <<72>>, <<73>>, <<74>>, <<75>>, <<76>>,
    <<77>>, <<78>>, <<79>>, <<80>>, <<81>>, <<82>>, <<83>>, <<84>>, <<85>>, <<86>>, <<87>>,
    <<88>>, <<89>>, <<90>>, <<91>>, <<92>>, <<93>>, <<94>>, <<95>>, <<96>>, <<97>>, <<98>>,
    <<99>>, <<100>>, <<101>>, <<102>>, <<103>>, <<104>>, <<105>>, <<106>>, <<107>>, <<108>>,
    <<109>>, <<110>>, <<111>>, <<112>>, <<113>>, <<114>>, <<115>>, <<116>>, <<117>>, <<118>>,
    <<119>>, <<120>>, <<121>>, <<122>>, <<123>>, <<124>>, <<125>>, <<126>>, <<>>, <<48>>,
    <<49>>, <<50>>, <<51>>, <<52>>, <<53>>, <<54>>, <<55>>, <<56>>, <<57>>, <<45>>, <<46>>,
    <<48>>, <<49>>, <<50>>, <<51>>, <<52>>, <<53>>, <<54>>, <<55>>, <<56>>, <<57>>, <<65>>,
    <<66>>, <<67>>, <<68>>, <<69>>, <<70>>, <<71>>, <<72>>, <<73>>, <<74>>, <<75>>, <<76>>,
    <<77>>, <<78>>, <<79>>, <<80>>, <<81>>, <<82>>, <<83>>, <<84>>, <<85>>, <<86>>, <<87>>,
    <<88>>, <<89>>, <<90>>, <<97>>, <<98>>, <<99>>, <<100>>, <<101>>, <<102>>, <<103>>, <<104>>,
    <<105>>, <<106>>, <<107>>, <<108>>, <<109>>, <<110>>, <<111>>, <<112>>, <<113>>, <<114>>,
    <<115>>, <<116>>, <<117>>, <<118>>, <<119>>, <<120>>, <<121>>, <<122>>, <<192>>, <<193>>,
    <<194>>, <<195>>, <<196>>, <<197>>, <<224>>, <<225>>, <<226>>, <<227>>, <<228>>, <<229>>,
    <<199>>, <<200>>, <<201>>, <<202>>, <<203>>, <<231>>, <<232>>, <<233>>, <<234>>, <<235>>,
    <<204>>, <<205>>, <<206>>, <<207>>, <<236>>, <<237>>, <<238>>, <<239>>, <<210>>, <<211>>,
    <<212>>, <<213>>, <<214>>, <<216>>, <<242>>, <<243>>, <<244>>, <<245>>, <<246>>, <<248>>,
    <<217>>, <<218>>, <<219>>, <<220>>, <<249>>, <<250>>, <<251>>, <<252>>, <<255>>, <<209>>,
    <<241>>, <<>>, <<97,99,99,111,117,110,116>>, <<97,99,107>>, <<97,99,116,105,111,110>>,
    <<97,99,116,105,118,101>>, <<97,100,100>>, <<97,102,116,101,114>>, <<97,108,108>>,
    <<97,108,108,111,119>>, <<97,112,112,108,101>>, <<97,117,100,105,111>>, <<97,117,116,104>>,
    <<97,117,116,104,111,114>>, <<97,118,97,105,108,97,98,108,101>>,
    <<98,97,100,45,112,114,111,116,111,99,111,108>>,
    <<98,97,100,45,114,101,113,117,101,115,116>>, <<98,101,102,111,114,101>>,
    <<98,105,116,115>>, <<98,114,111,97,100,99,97,115,116>>, <<99,97,116>>,
    <<99,97,116,101,103,111,114,121>>, <<99,104,97,108,108,101,110,103,101>>, <<99,104,97,116>>,
    <<99,108,101,97,114>>, <<99,111,100,101>>, <<99,111,109,112,111,115,105,110,103>>,
    <<99,111,110,116,97,99,116,115>>, <<99,111,117,110,116>>, <<99,114,101,97,116,101>>,
    <<99,114,101,97,116,105,111,110>>, <<100,101,102,97,117,108,116>>, <<100,101,108,97,121>>,
    <<100,101,108,101,116,101>>, <<100,101,108,105,118,101,114,101,100>>, <<100,101,110,121>>,
    <<100,101,118,105,99,101>>, <<100,105,103,101,115,116>>, <<100,105,114>>,
    <<100,105,114,101,99,116,105,118,101,115>>, <<100,105,114,101,99,116,95,112,97,116,104>>,
    <<100,105,115,97,98,108,101>>, <<100,117,112,108,105,99,97,116,101>>,
    <<100,117,114,97,116,105,111,110>>, <<101,50,101,95,101,110,99,114,121,112,116,101,100>>,
    <<101,110,99,111,100,105,110,103>>, <<101,110,99,114,121,112,116>>, <<101,114,114,111,114>>,
    <<101,120,112,105,114,97,116,105,111,110>>, <<101,120,112,105,114,101,100>>,
    <<102,97,105,108>>, <<102,97,105,108,117,114,101>>, <<102,97,108,115,101>>,
    <<102,97,118,111,114,105,116,101,115>>, <<102,101,97,116,117,114,101>>,
    <<102,101,97,116,117,114,101,115>>, <<102,105,114,115,116>>,
    <<102,111,114,119,97,114,100,101,100>>, <<102,114,111,109>>, <<102,117,116,117,114,101>>,
    <<103,46,117,115>>, <<103,101,116>>, <<103,111,111,103,108,101>>, <<103,114,111,117,112>>,
    <<103,114,111,117,112,115>>, <<103,114,111,117,112,115,95,118,50>>,
    <<104,101,105,103,104,116>>, <<104,111,115,116>>, <<105,100>>,
    <<105,100,101,110,116,105,116,121>>, <<105,109,97,103,101>>, <<105,110>>,
    <<105,110,100,101,120>>, <<105,110,105,116>>, <<105,110,116,101,110,116>>,
    <<105,110,116,101,114,110,97,108,45,115,101,114,118,101,114,45,101,114,114,111,114>>,
    <<105,112>>, <<105,112,95,110,101,116,119,111,114,107>>, <<105,113>>, <<106,105,100>>,
    <<107,105,110,100>>, <<108,97,115,116>>, <<108,97,116,101,115,116>>,
    <<108,97,116,105,116,117,100,101>>, <<108,101,110,103,116,104>>,
    <<108,111,99,97,116,105,111,110>>, <<108,111,103>>, <<108,111,110,103,105,116,117,100,101>>,
    <<109,97,120>>, <<109,101,100,105,97>>, <<109,101,115,115,97,103,101>>,
    <<109,101,115,115,97,103,101,45,105,100>>,
    <<109,101,115,115,97,103,101,95,116,121,112,101>>, <<109,101,116,97>>,
    <<109,105,109,101,45,116,121,112,101>>, <<109,111,100,101>>, <<109,111,100,105,102,121>>,
    <<109,117,116,101>>, <<110,97,109,101>>, <<110,111,116,105,102,105,99,97,116,105,111,110>>,
    <<110,111,116,105,102,121>>, <<111,102,102>>, <<111,110>>,
    <<111,117,116,103,111,105,110,103>>, <<111,119,110,101,114>>,
    <<112,97,114,116,105,99,105,112,97,110,116>>, <<112,97,117,115,101,100>>,
    <<112,105,99,116,117,114,101>>, <<112,105,110,103>>, <<112,108,97,116,102,111,114,109>>,
    <<112,108,97,121,101,100>>, <<112,111,108,108>>, <<112,111,114,116>>,
    <<112,114,101,115,101,110,99,101>>, <<112,114,101,118,105,101,119>>,
    <<112,114,111,102,105,108,101>>, <<112,114,111,112,115>>, <<113,117,101,114,121>>,
    <<114,97,119>>, <<114,101,97,100>>, <<114,101,97,100,45,114,101,99,101,105,112,116,115>>,
    <<114,101,97,115,111,110>>, <<114,101,99,101,105,112,116>>, <<114,101,108,97,121>>,
    <<114,101,109,111,116,101,45,115,101,114,118,101,114,45,101,114,114,111,114>>,
    <<114,101,109,111,118,101>>, <<114,101,113,117,101,115,116>>,
    <<114,101,113,117,105,114,101,100>>, <<114,101,115,111,117,114,99,101>>,
    <<114,101,115,111,117,114,99,101,45,99,111,110,102,108,105,99,116>>,
    <<114,101,115,111,117,114,99,101,45,99,111,110,115,116,114,97,105,110,116>>,
    <<114,101,115,112,111,110,115,101>>, <<114,101,115,117,108,116>>, <<114,101,116,114,121>>,
    <<114,105,109>>, <<115,46,119,104,97,116,115,97,112,112,46,110,101,116>>,
    <<115,101,99,111,110,100,115>>, <<115,101,114,118,101,114>>,
    <<115,101,114,118,101,114,45,101,114,114,111,114>>,
    <<115,101,114,118,105,99,101,45,117,110,97,118,97,105,108,97,98,108,101>>, <<115,101,116>>,
    <<115,105,108,101,110,116>>, <<115,105,122,101>>, <<115,116,97,116,101>>,
    <<115,116,97,116,117,115>>, <<115,116,111,114,97,103,101>>,
    <<115,116,114,101,97,109,58,101,114,114,111,114>>, <<115,117,98,106,101,99,116>>,
    <<115,117,98,115,99,114,105,98,101>>, <<115,117,99,99,101,115,115>>, <<115,121,110,99>>,
    <<116>>, <<116,101,120,116>>, <<116,105,109,101,111,117,116>>,
    <<116,105,109,101,115,116,97,109,112>>, <<116,114,117,101>>, <<116,121,112,101>>,
    <<117,110,97,118,97,105,108,97,98,108,101>>, <<117,110,115,117,98,115,99,114,105,98,101>>,
    <<117,112,100,97,116,101>>, <<117,114,105>>, <<117,114,108>>, <<117,115,101,114>>,
    <<117,115,101,114,45,110,111,116,45,102,111,117,110,100>>, <<118,97,108,117,101>>,
    <<118,101,114,115,105,111,110>>, <<118,105,100,101,111>>, <<119,101,98>>,
    <<119,105,100,116,104>>, <<120,109,108>>, <<120,109,112,112,45,101,114,114,111,114>>,
    <<120,109,108,110,115>>, <<120,109,108,110,115,58,115,116,114,101,97,109>>, <<49,46,48>>
  >>

\* WATag.TOKENS[i] with Python's 0-based index; <<>> where the list holds None
TokenAt(i) == TOKENS[i + 1]

is_list(tag) == tag = LIST_EMPTY \/ tag = LIST_8 \/ tag = LIST_16

is_dict(tag) == tag >= DICTIONARY_0 /\ tag <= DICTIONARY_3

(***************************************************************************)
(* str.encode('utf-8') and bytes.decode('utf-8').                          *)
(***************************************************************************)
Utf8Char(c) ==
    IF c < 128 THEN <<c>>
    ELSE IF c < 2048 THEN <<192 + (c \div 64), 128 + (c % 64)>>
    ELSE IF c < 65536 THEN <<224 + (c \div 4096), 128 + ((c \div 64) % 64), 128 + (c % 64)>>
    ELSE <<240 + (c \div 262144), 128 + ((c \div 4096) % 64), 128 + ((c \div 64) % 64), 128 + (c % 64)>>

RECURSIVE Utf8Encode(_)
Utf8Encode(s) == IF s = <<>> THEN <<>> ELSE Utf8Char(Head(s)) \o Utf8Encode(Tail(s))

RECURSIVE Utf8DecodeFrom(_, _)
Utf8DecodeFrom(b, i) ==
    IF i > Len(b) THEN [err |-> FALSE, val |-> <<>>]
    ELSE LET b1 == b[i]
             n == IF b1 < 128 THEN 1
                  ELSE IF b1 >= 194 /\ b1 <= 223 THEN 2
                  ELSE IF b1 >= 224 /\ b1 <= 239 THEN 3
                  ELSE IF b1 >= 240 /\ b1 <= 244 THEN 4 ELSE 0
             cont(j) == i + j <= Len(b) /\ b[i + j] >= 128 /\ b[i + j] <= 191
             wellFormed == n > 0 /\ \A j \in 1..(n - 1) : cont(j)
             cp == CASE n = 1 -> b1
                     [] n = 2 -> (b1 - 192) * 64 + (b[i + 1] - 128)
                     [] n = 3 -> (b1 - 224) * 4096 + (b[i + 1] - 128) * 64 + (b[i + 2] - 128)
                     [] n = 4 -> (b1 - 240) * 262144 + (b[i + 1] - 128) * 4096
                                 + (b[i + 2] - 128) * 64 + (b[i + 3] - 128)
             valid == /\ wellFormed
                      /\ (n = 3 => cp >= 2048 /\ ~(cp >= 55296 /\ cp <= 57343))
                      /\ (n = 4 => cp >= 65536 /\ cp <= 1114111)
         IN  IF ~valid THEN [err |-> TRUE, val |-> <<>>]
             ELSE LET rest == Utf8DecodeFrom(b, i + n)
                  IN  IF rest.err THEN rest ELSE [err |-> FALSE, val |-> <<cp>> \o rest.val]

Utf8Decode(b) == Utf8DecodeFrom(b, 1)

(***************************************************************************)
(* WABinaryEncoder.  Each writer returns the bytes it appends to           *)
(* self.buffer; the writers that can raise return [err, out].              *)
(***************************************************************************)
EOk(out) == [err |-> FALSE, out |-> out]
EErr == [err |-> TRUE, out |-> <<>>]

\* sequencing of two encoder steps: the second does not run if the first raised
ESeq(r1, r2) == IF r1.err THEN r1 ELSE IF r2.err THEN r2 ELSE EOk(r1.out \o r2.out)

write_byte(value) == <<value % 256>>

write_int16(value) == <<(value \div 256) % 256, value % 256>>

write_int20(value) == <<(value \div 65536) % 16, (value \div 256) % 256, value % 256>>

write_int32(value) ==
    <<(value \div 16777216) % 256, (value \div 65536) % 256, (value \div 256) % 256, value % 256>>

write_string(value) == Utf8Encode(value)

\* position of the first x in s (value.split('@', 1) splits there)
IndexOf(s, x) == CHOOSE i \in 1..Len(s) : s[i] = x /\ \A j \in 1..(i - 1) : s[j] # x

write_jid(value) ==
    IF ~Contains(value, AT) THEN EErr
    ELSE LET p == IndexOf(value, AT)
             user == Slice(value, 1, p - 1)
             server == Slice(value, p + 1, Len(value))
         IN  EOk(write_byte(JID_PAIR) \o write_byte(Len(user)) \o write_string(user)
                 \o write_byte(Len(server)) \o write_string(server))

\* the 8/20/32-bit length class shared by write_bytes and write_nibble
LengthClass(size) ==
    IF size < 256 THEN write_byte(BINARY_8) \o write_byte(size)
    ELSE IF size < 1048576 THEN write_byte(BINARY_20) \o write_int20(size)
    ELSE write_byte(BINARY_32) \o write_int32(size)

write_bytes(value) == LengthClass(Len(value)) \o value

write_list_start(size) ==
    IF size = 0 THEN write_byte(LIST_EMPTY)
    ELSE IF size < 256 THEN write_byte(LIST_8) \o write_byte(size)
    ELSE write_byte(LIST_16) \o write_int16(size)

\* WATag.TOKENS.index(token), or 256 when the token is not in the list
find_token_index(token) ==
    LET hits == {i \in 1..Len(TOKENS) : TOKENS[i] = token}
    IN  IF hits = {} THEN 256
        ELSE (CHOOSE i \in hits : \A j \in hits : i <= j) - 1

\* str.isdigit() for the code points below 128
isdigit(value) == value # <<>> /\ \A i \in 1..Len(value) : value[i] >= 48 /\ value[i] <= 57

RECURSIVE PackDigits(_, _)
PackDigits(value, i) ==
    IF i > Len(value) THEN <<>>
    ELSE LET digit1 == value[i] - 48
             digit2 == IF i + 1 <= Len(value) THEN value[i + 1] - 48 ELSE 15
         IN  write_byte(digit1 * 16 + digit2) \o PackDigits(value, i + 2)

write_nibble(value) ==
    IF isdigit(value)
    THEN write_byte(NIBBLE_8)
         \o write_byte(IF Len(value) % 2 = 1 THEN Len(value) + 1 ELSE Len(value))
         \o PackDigits(value, 1)
    ELSE LengthClass(Len(Utf8Encode(value))) \o Utf8Encode(value)

write_token(token) ==
    IF token = <<>> THEN write_byte(0)
    ELSE LET index == find_token_index(token)
         IN  IF index < SINGLE_BYTE_MAX THEN write_byte(index)
             ELSE IF index < 256 * 4 + SINGLE_BYTE_MAX
                  THEN write_byte(DICTIONARY_0 + ((index - SINGLE_BYTE_MAX) \div 256))
                       \o write_byte((index - SINGLE_BYTE_MAX) % 256)
                  ELSE write_nibble(token)

\* str.lower() for the code points below 128
Lower(s) == [i \in 1..Len(s) |-> IF s[i] >= 65 /\ s[i] <= 90 THEN s[i] + 32 ELSE s[i]]

JID_KEY == <<106, 105, 100>>   \* 'jid'
PARTICIPANT_KEY == <<112, 97, 114, 116, 105, 99, 105, 112, 97, 110, 116>>   \* 'participant'

RECURSIVE Decimal(_)
\* str(value) of a non-negative int
Decimal(n) == IF n < 10 THEN <<48 + n>> ELSE Decimal(n \div 10) \o <<48 + (n % 10)>>

\* str(x) of a dict: never empty and never a dictionary token
DictRepr == <<123, 39, 116, 97, 103, 39, 58>>   \* "{'tag':"

\* one attribute value, lines 715-728 of encode_node
encode_attr_value(key, value) ==
    CASE value.k = "str" ->
            IF Contains(value.v, AT)
               /\ (HasSubstr(Lower(key), JID_KEY) \/ Lower(key) = PARTICIPANT_KEY)
            THEN write_jid(value.v)
            ELSE EOk(write_token(value.v))
      [] value.k = "bytes" -> EOk(write_bytes(value.v))
      [] value.k = "int" -> EOk(write_token(Decimal(value.v)))
      [] OTHER -> EOk(write_token(DictRepr))

RECURSIVE encode_attrs(_, _)
encode_attrs(attrs, i) ==
    IF i > Len(attrs) THEN EOk(<<>>)
    ELSE ESeq(ESeq(EOk(write_token(attrs[i].key)), encode_attr_value(attrs[i].key, attrs[i].value)),
              encode_attrs(attrs, i + 1))

RECURSIVE encode_node(_)
RECURSIVE encode_children(_, _)
encode_children(children, i) ==
    IF i > Len(children) THEN EOk(<<>>)
    ELSE ESeq(encode_node(children[i]), encode_children(children, i + 1))

encode_node(n) ==
    IF n.k = "none" \/ (n.k \in {"str", "bytes", "list"} /\ n.v = <<>>)
    THEN EOk(write_list_start(0))              \* `if not node`
    ELSE IF n.k # "node" THEN EErr             \* node.get(...) on a non-dict raises
    ELSE LET attrs_count == Len(n.attrs)
             has_content == n.content.k # "none"
             list_size == 1 + attrs_count * 2 + (IF has_content THEN 1 ELSE 0)
             attrs_list_size == 1 + attrs_count * 2
             content == n.content
             tagOut == IF Contains(n.tag, AT) THEN write_jid(n.tag) ELSE EOk(write_token(n.tag))
             contentOut ==
                 CASE ~has_content -> EOk(<<>>)
                   [] content.k = "str" ->
                         IF Contains(content.v, AT) THEN write_jid(content.v)
                         ELSE EOk(write_token(content.v))
                   [] content.k = "bytes" -> EOk(write_bytes(content.v))
                   [] content.k = "list" ->
                         ESeq(EOk(write_list_start(Len(content.v))), encode_children(content.v, 1))
                   [] OTHER -> EOk(write_token(DictRepr))
         IN  ESeq(ESeq(ESeq(EOk(write_list_start(list_size) \o write_list_start(attrs_list_size)),
                            tagOut),
                       encode_attrs(n.attrs, 1)),
                  contentOut)

\* WABinaryEncoder.encode / WANode.encode
encode(n) == encode_node(n)

(***************************************************************************)
(* WANode: the builder.  A node is the dict {"tag", "attrs", "content"};   *)
(* attrs is the dict in insertion order, a sequence of [key, value] with   *)
(* unique keys.                                                            *)
(***************************************************************************)
create(tag, attrs, content) == [k |-> "node", tag |-> tag, attrs |-> attrs, content |-> content]

\* WANode.add_child: "content" is always a key of a created node, so a
\* content that is not a list (None included) becomes the one-item list first
add_child(n, child) ==
    [n EXCEPT !.content =
        IF n.content.k = "list" THEN List(Append(n.content.v, child))
        ELSE List(<<n.content, child>>)]

\* attrs[key] = value on an insertion-ordered dict
DictSet(attrs, key, value) ==
    IF \E i \in 1..Len(attrs) : attrs[i].key = key
    THEN [i \in 1..Len(attrs) |-> IF attrs[i].key = key THEN [key |-> key, value |-> value] ELSE attrs[i]]
    ELSE Append(attrs, [key |-> key, value |-> value])

(***************************************************************************)
(* WABinaryDecoder.  A reader takes the buffer and the number of bytes     *)
(* consumed so far and returns [err, val, pos]; err stands for the raised  *)
(* exception (struct.error on a short read, ValueError, UnicodeDecodeError)*)
(***************************************************************************)
ROk(val, pos) == [err |-> FALSE, val |-> val, pos |-> pos]
RErr == [err |-> TRUE, val |-> None, pos |-> 0]

read_byte(buf, pos) == IF pos + 1 <= Len(buf) THEN ROk(buf[pos + 1], pos + 1) ELSE RErr

read_int16(buf, pos) ==
    IF pos + 2 <= Len(buf) THEN ROk(buf[pos + 1] * 256 + buf[pos + 2], pos + 2) ELSE RErr

read_int20(buf, pos) ==
    IF pos + 3 <= Len(buf)
    THEN ROk((buf[pos + 1] % 16) * 65536 + buf[pos + 2] * 256 + buf[pos + 3], pos + 3)
    ELSE RErr

\* the value saturates at 2^31 - 1: it is only ever used as a read length
read_int32(buf, pos) ==
    IF pos + 4 <= Len(buf)
    THEN ROk(IF buf[pos + 1] >= 128 THEN 2147483647
             ELSE buf[pos + 1] * 16777216 + buf[pos + 2] * 65536 + buf[pos + 3] * 256 + buf[pos + 4],
             pos + 4)
    ELSE RErr

\* self.buffer.read(length): short reads return what is left, silently
read(buf, pos, length) ==
    LET n == Min(length, Len(buf) - pos) IN ROk(Slice(buf, pos + 1, pos + n), pos + n)

read_string(buf, pos, length) ==
    LET r == read(buf, pos, length)
        d == Utf8Decode(r.val)
    IN  IF d.err THEN RErr ELSE ROk(d.val, r.pos)

read_list_size(buf, pos, tag) ==
    IF tag = LIST_EMPTY THEN ROk(0, pos)
    ELSE IF tag = LIST_8 THEN read_byte(buf, pos)
    ELSE IF tag = LIST_16 THEN read_int16(buf, pos)
    ELSE RErr

\* decode_nibble: below SINGLE_BYTE_MAX it is a plain table lookup with "" for
\* a missing token; from 256 up (string_tag & 0xF0) equals neither NIBBLE_8
\* nor HEX_8, so the call raises
decode_nibble(string_tag) ==
    IF string_tag >= 0 /\ string_tag < SINGLE_BYTE_MAX
    THEN [err |-> FALSE,
          val |-> IF string_tag < Len(TOKENS) THEN TokenAt(string_tag) ELSE <<>>]
    ELSE [err |-> TRUE, val |-> <<>>]

read_packed_bytes(buf, pos, tag) ==
    LET size == IF tag = BINARY_8 THEN read_byte(buf, pos)
                ELSE IF tag = BINARY_20 THEN read_int20(buf, pos)
                ELSE IF tag = BINARY_32 THEN read_int32(buf, pos)
                ELSE RErr
    IN  IF size.err THEN RErr
        ELSE LET r == read(buf, size.pos, size.val) IN ROk(Bytes(r.val), r.pos)

decode_jid(buf, pos, tag) ==
    IF tag # JID_PAIR THEN RErr
    ELSE Bind(read_byte(buf, pos), LAMBDA ul :
         IF ul.err THEN RErr ELSE
         Bind(read_string(buf, ul.pos, ul.val), LAMBDA user :
         IF user.err THEN RErr ELSE
         Bind(read_byte(buf, user.pos), LAMBDA sl :
         IF sl.err THEN RErr ELSE
         Bind(read_string(buf, sl.pos, sl.val), LAMBDA server :
         IF server.err THEN RErr
         ELSE ROk(Str(user.val \o <<AT>> \o server.val), server.pos)))))

\* the dictionary branch shared by tag, key and value (lines 342-353, 369-379,
\* 396-406): val is None when the code leaves its result unset
dict_lookup(buf, pos, byte) ==
    LET switch == (byte \div 16) * 16      \* byte & 0xF0
    IN  IF switch = DICTIONARY_0 \/ switch = DICTIONARY_1
           \/ switch = DICTIONARY_2 \/ switch = DICTIONARY_3
        THEN LET r == read_byte(buf, pos)
                 dict_index == r.val + (byte % 16) * 256     \* byte | offset
             IN  IF r.err THEN RErr
                 ELSE IF dict_index < Len(TOKENS) /\ TokenAt(dict_index) # <<>>
                      THEN ROk(Str(TokenAt(dict_index)), r.pos)
                      ELSE ROk(None, r.pos)
        ELSE ROk(None, pos)

\* "0" for a zero byte, decode_nibble otherwise
plain_token(pos, byte) ==
    IF byte = 0 THEN ROk(Str(<<48>>), pos)
    ELSE LET d == decode_nibble(byte) IN IF d.err THEN RErr ELSE ROk(Str(d.val), pos)

\* a None result raises ValueError
NotNone(r) == IF r.err \/ r.val.k = "none" THEN RErr ELSE r

\* node type, lines 331-356
decode_type(buf, pos, type_byte) ==
    IF type_byte = JID_PAIR THEN decode_jid(buf, pos, type_byte)
    ELSE IF type_byte < DICTIONARY_0 THEN plain_token(pos, type_byte)
    ELSE NotNone(dict_lookup(buf, pos, type_byte))

\* attribute key, lines 363-387
decode_key(buf, pos, key_byte) ==
    IF key_byte = JID_PAIR THEN decode_jid(buf, pos, key_byte)
    ELSE IF is_dict(key_byte) THEN NotNone(dict_lookup(buf, pos, key_byte))
    ELSE plain_token(pos, key_byte)

\* attribute value, lines 390-416
decode_value(buf, pos, value_byte) ==
    IF value_byte = JID_PAIR THEN decode_jid(buf, pos, value_byte)
    ELSE IF is_dict(value_byte) THEN NotNone(dict_lookup(buf, pos, value_byte))
    ELSE IF value_byte = BINARY_8 \/ value_byte = BINARY_20 \/ value_byte = BINARY_32
         THEN read_packed_bytes(buf, pos, value_byte)
    ELSE plain_token(pos, value_byte)

RECURSIVE read_attrs(_, _, _, _)
\* the attribute loop, lines 362-418
read_attrs(buf, pos, count, attrs) ==
    IF count = 0 THEN ROk(attrs, pos)
    ELSE Bind(read_byte(buf, pos), LAMBDA kb :
         IF kb.err THEN RErr ELSE
         Bind(decode_key(buf, kb.pos, kb.val), LAMBDA key :
         IF key.err THEN RErr ELSE
         Bind(read_byte(buf, key.pos), LAMBDA vb :
         IF vb.err THEN RErr ELSE
         Bind(decode_value(buf, vb.pos, vb.val), LAMBDA value :
         IF value.err THEN RErr
         ELSE read_attrs(buf, value.pos, count - 1, DictSet(attrs, key.val.v, value.val))))))

RECURSIVE next_node(_, _)
RECURSIVE read_children(_, _, _, _)
\* the child loop, lines 429-432: a None child is dropped
read_children(buf, pos, count, children) ==
    IF count = 0 THEN ROk(children, pos)
    ELSE Bind(next_node(buf, pos), LAMBDA child :
         IF child.err THEN RErr
         ELSE read_children(buf, child.pos, count - 1,
                            IF child.val.k = "none" THEN children
                            ELSE Append(children, child.val)))

\* node content, lines 421-440
decode_content(buf, pos) ==
    Bind(read_byte(buf, pos), LAMBDA ct :
    IF ct.err THEN RErr
    ELSE IF is_list(ct.val)
         THEN Bind(read_list_size(buf, ct.pos, ct.val), LAMBDA cs :
              IF cs.err THEN RErr ELSE
              Bind(read_children(buf, cs.pos, cs.val, <<>>), LAMBDA ch :
              IF ch.err THEN RErr ELSE ROk(List(ch.val), ch.pos)))
    ELSE IF ct.val = BINARY_8 \/ ct.val = BINARY_20 \/ ct.val = BINARY_32
         THEN read_packed_bytes(buf, ct.pos, ct.val)
    ELSE IF ct.val = JID_PAIR THEN decode_jid(buf, ct.pos, ct.val)
    ELSE Bind(decode_nibble(ct.val), LAMBDA d :
         IF d.err THEN RErr ELSE ROk(Str(d.val), ct.pos)))

\* a leading byte that is not a list tag raises (WATag has no STREAM member)
next_node(buf, pos) ==
    Bind(read_byte(buf, pos), LAMBDA tag :
    IF tag.err \/ ~is_list(tag.val) THEN RErr ELSE
    Bind(read_list_size(buf, tag.pos, tag.val), LAMBDA list_size :
    IF list_size.err THEN RErr
    ELSE IF list_size.val = 0 THEN ROk(None, list_size.pos) ELSE
    Bind(read_byte(buf, list_size.pos), LAMBDA desc_type :
    IF desc_type.err \/ ~is_list(desc_type.val) THEN RErr ELSE
    Bind(read_list_size(buf, desc_type.pos, desc_type.val), LAMBDA descriptor_len :
    IF descriptor_len.err THEN RErr
    ELSE IF descriptor_len.val = 0 THEN ROk(None, descriptor_len.pos) ELSE
    Bind(read_byte(buf, descriptor_len.pos), LAMBDA type_byte :
    IF type_byte.err THEN RErr ELSE
    Bind(decode_type(buf, type_byte.pos, type_byte.val), LAMBDA type_str :
    IF type_str.err THEN RErr ELSE
    Bind(read_attrs(buf, type_str.pos, (descriptor_len.val - 1) \div 2, <<>>), LAMBDA attrs :
    IF attrs.err THEN RErr ELSE
    Bind(IF list_size.val > 1 THEN decode_content(buf, attrs.pos) ELSE ROk(None, attrs.pos),
         LAMBDA content :
    IF content.err THEN RErr
    ELSE ROk(create(type_str.val.v, attrs.val, content.val), content.pos)))))))))

\* WABinaryDecoder.decode / WANode.decode: the exception propagates
decode(buf) == Bind(next_node(buf, 0), LAMBDA r : [err |-> r.err, val |-> r.val])

RECURSIVE PyEq(_, _)
\* Python's == on the values above: dicts compare by key set and values,
\* lists element by element, str never equals bytes
PyEq(a, b) ==
    IF a.k # b.k THEN FALSE
    ELSE CASE a.k = "node" ->
                /\ a.tag = b.tag
                /\ {a.attrs[i] : i \in 1..Len(a.attrs)} = {b.attrs[i] : i \in 1..Len(b.attrs)}
                /\ PyEq(a.content, b.content)
           [] a.k = "list" ->
                /\ Len(a.v) = Len(b.v)
                /\ \A i \in 1..Len(a.v) : PyEq(a.v[i], b.v[i])
           [] OTHER -> a.v = b.v

(***************************************************************************)
(* Codec harness: a caller builds a node with WANode.create and            *)
(* WANode.add_child, encodes it and decodes the bytes.                     *)
(***************************************************************************)
MaxChildren == 2

\* the strings the builder draws from, as code points
S_a == <<97>>                              \* 'a'      (single-byte token 81)
S_b == <<98>>                              \* 'b'
S_c == <<99>>                              \* 'c'
S_d == <<100>>                             \* 'd'
S_id == <<105, 100>>                       \* 'id'     (token 306)
S_message == <<109, 101, 115, 115, 97, 103, 101>>   \* 'message' (token 328)
S_hello == <<104, 101, 108, 108, 111>>     \* 'hello'  (no token)
S_123 == <<49, 50, 51>>                    \* '123'    (digits, no token)
S_jid == <<49, 64, 99>>                    \* '1@c'    (a JID)

TagPool == {S_a, S_message, S_jid}

AttrsPool ==
    { <<>>,
      <<[key |-> S_b, value |-> Str(S_c)]>>,
      <<[key |-> S_b, value |-> Str(S_123)]>>,
      <<[key |-> JID_KEY, value |-> Str(S_jid)]>>,
      <<[key |-> S_b, value |-> Str(S_jid)]>>,
      <<[key |-> S_b, value |-> Bytes(<<1, 2>>)]>>,
      <<[key |-> S_b, value |-> Str(S_c)], [key |-> S_c, value |-> Str(S_d)]>> }

ContentPool == {None, Str(S_b), Str(S_hello), Str(S_jid), Bytes(<<1, 2>>), List(<<>>)}

ChildPool == {create(S_b, <<>>, None), create(S_c, <<>>, Str(S_d))}

InitCodec ==
    /\ node = None
    /\ buffer = <<>>
    /\ encErr = FALSE
    /\ decoded = [err |-> FALSE, val |-> None]
    /\ cpc = "build"

\* node = WANode.create(tag, attrs, content)
Create(tag, attrs, content) ==
    /\ cpc = "build"
    /\ node = None
    /\ node' = create(tag, attrs, content)
    /\ UNCHANGED <<buffer, encErr, decoded, cpc, notCodec>>

\* WANode.add_child(node, child)
AddChild(child) ==
    /\ cpc = "build"
    /\ node.k = "node"
    /\ (node.content.k = "list" => Len(node.content.v) < MaxChildren)
    /\ node' = add_child(node, child)
    /\ UNCHANGED <<buffer, encErr, decoded, cpc, notCodec>>

\* buffer = WANode.encode(node)
Encode ==
    /\ cpc = "build"
    /\ node.k = "node"
    /\ LET r == encode(node) IN buffer' = r.out /\ encErr' = r.err
    /\ cpc' = "encoded"
    /\ UNCHANGED <<node, decoded, notCodec>>

\* decoded = WANode.decode(buffer)
Decode ==
    /\ cpc = "encoded"
    /\ ~encErr
    /\ decoded' = decode(buffer)
    /\ cpc' = "decoded"
    /\ UNCHANGED <<node, buffer, encErr, notCodec>>

\* frames as they arrive from the wire, for WANode.decode.  Each is the list
\* header of a node whose tag is the single-byte token 81 ('a') unless the
\* tag itself is the point
RawValid == <<LIST_8, 2, LIST_8, 1, 81, BINARY_8, 2, 1, 2>>            \* content b'\x01\x02'
RawLengthPastEnd == <<LIST_8, 2, LIST_8, 1, 81, BINARY_8, 5, 1, 2>>    \* 5 bytes declared, 2 present
RawUnknownTag == <<7, 1, LIST_8, 1, 81>>                               \* leading byte is no list tag
RawIndexBeyond == <<LIST_8, 1, LIST_8, 1, DICTIONARY_3, 255>>          \* tag: page 3, entry 255
RawContentIndex255 == <<LIST_8, 2, LIST_8, 1, 81, 255>>                \* content: index 255
RawContentIndex256 == <<LIST_8, 2, LIST_8, 1, 81, DICTIONARY_0, 0>>    \* content: page 0, entry 0
RawTagIndex256 == <<LIST_8, 1, LIST_8, 1, DICTIONARY_0, 0>>            \* tag: page 0, entry 0

RawPool == {RawValid, RawLengthPastEnd, RawUnknownTag, RawIndexBeyond,
            RawContentIndex255, RawContentIndex256, RawTagIndex256}

\* decoded = WANode.decode(data) on bytes received
DecodeRaw(data) ==
    /\ cpc = "build"
    /\ node = None
    /\ buffer' = data
    /\ decoded' = decode(data)
    /\ cpc' = "raw"
    /\ UNCHANGED <<node, encErr, notCodec>>

(***************************************************************************)
(* Inbound text frames.  A frame is "<tag>,<payload>": head is the text    *)
(* before the first comma (the whole text when there is none), comma says  *)
(* whether there is one, data is the payload as json.loads sees it: a dict *)
(* with its status / clientToken / serverToken / ref entries, or not one.  *)
(***************************************************************************)
NoVal == "None"

T_s1 == <<115, 49>>                \* 's1'
T_s10 == <<115, 49, 48>>           \* 's10'
T_pong == <<112, 111, 110, 103>>   \* 'pong'
T_q1 == <<113, 49>>                \* 'q1'

StartsWith(s, p) == Len(s) >= Len(p) /\ SubSeq(s, 1, Len(p)) = p

NoData == [json |-> "str", status |-> 0, clientToken |-> NoVal, serverToken |-> NoVal, ref |-> NoVal]
Ok200(c, s) == [json |-> "dict", status |-> 200, clientToken |-> c, serverToken |-> s, ref |-> NoVal]
Qr401(r) == [json |-> "dict", status |-> 401, clientToken |-> NoVal, serverToken |-> NoVal, ref |-> r]
Other == [json |-> "dict", status |-> 0, clientToken |-> NoVal, serverToken |-> NoVal, ref |-> NoVal]

Frame(head, data) == [head |-> head, comma |-> TRUE, data |-> data]
NoFrame == [head |-> <<>>, comma |-> FALSE, data |-> NoData]       \* ""

FramePool ==
    { NoFrame,
      [head |-> T_q1, comma |-> FALSE, data |-> NoData],            \* "q1"
      Frame(T_pong, NoData),                                        \* "pong,x"
      Frame(T_s1, Ok200("c1", "s1")),
      Frame(T_s10, Ok200("c1", "s1")),
      Frame(T_s1, Qr401("abc")) }

\* what one step did: the operation, the frame it handled, its result, the
\* frames it wrote to the transport and the callbacks it invoked, in order
Ev(op, frame, result, wrote, cb) ==
    [op |-> op, frame |-> frame, result |-> result, wrote |-> wrote, cb |-> cb]
NoEv == Ev("none", NoFrame, "none", <<>>, <<>>)

(***************************************************************************)
(* wawspy/connection.py: WAConnection.  The caller's thread runs connect,  *)
(* disconnect and send_message; every WebSocketApp has a run_forever       *)
(* thread that calls _on_open, _on_message and _on_close; keepalive_worker *)
(* threads ping.  No lock is taken anywhere (self.lock is never used), so  *)
(* the threads interleave between statements.                              *)
(***************************************************************************)
MaxSockets == 2
MaxWorkers == 2
max_reconnect_attempts == 10

SockIds == 1..MaxSockets

\* a WebSocketApp slot can be taken again when its thread has ended (both
\* places that create one overwrite self.ws)
FreeIds == {i \in SockIds : sock[i] \in {"free", "closed"} /\ tpc[i] = "none"}
NewId == CHOOSE i \in FreeIds : \A j \in FreeIds : i <= j

\* WebSocketApp.close(): the run_forever thread will tear down and call on_close
ws_close(s, id) ==
    IF id # 0 /\ s[id] \in {"connecting", "open"} THEN [s EXCEPT ![id] = "closing"] ELSE s

\* WebSocketApp.send() succeeds on an open socket and raises otherwise
ws_send_ok(s, id) == id # 0 /\ s[id] = "open"

NoCall == [wasConnected |-> FALSE, closeInvoked |-> FALSE]

InitConn ==
    /\ ws = 0
    /\ connected = FALSE
    /\ authenticated = FALSE
    /\ client_token = NoVal
    /\ server_token = NoVal
    /\ reconnect_attempts = 0
    /\ keepalive_workers = 0
    /\ sock = [i \in SockIds |-> "free"]
    /\ tpc = [i \in SockIds |-> "none"]
    /\ upc = "idle"
    /\ dcall = NoCall
    /\ user_closed = FALSE
    /\ ev = NoEv

\* connect(), up to the start of the run_forever thread
Conn_connect ==
    /\ upc = "idle"
    /\ FreeIds # {}
    /\ keepalive_workers < MaxWorkers
    /\ LET id == NewId IN
        /\ ws' = id
        /\ sock' = [sock EXCEPT ![id] = "connecting"]
        /\ tpc' = [tpc EXCEPT ![id] = "run"]
    /\ upc' = "connect_poll"
    /\ user_closed' = FALSE
    /\ ev' = NoEv
    /\ UNCHANGED <<connected, authenticated, client_token, server_token,
                   reconnect_attempts, keepalive_workers, dcall, notConn>>

\* connect(): the wait loop ends (connected, or the 30 s are over), then
\* _start_keepalive() and return True, or return False
Conn_connect_return ==
    /\ upc = "connect_poll"
    /\ upc' = "idle"
    /\ IF connected
       THEN /\ keepalive_workers' = keepalive_workers + 1
            /\ ev' = Ev("connect_return", NoFrame, "True", <<>>, <<>>)
       ELSE /\ UNCHANGED keepalive_workers
            /\ ev' = Ev("connect_return", NoFrame, "False", <<>>, <<>>)
    /\ UNCHANGED <<ws, connected, authenticated, client_token, server_token,
                   reconnect_attempts, sock, tpc, dcall, user_closed, notConn>>

\* disconnect(): drop the keepalive thread reference, self.ws.close()
Conn_disconnect_close ==
    /\ upc = "idle"
    /\ dcall' = [wasConnected |-> connected, closeInvoked |-> ws # 0]
    /\ sock' = ws_close(sock, ws)
    /\ upc' = IF ws # 0 THEN "disconnect_138" ELSE "disconnect_140"
    /\ user_closed' = TRUE
    /\ ev' = NoEv
    /\ UNCHANGED <<ws, connected, authenticated, client_token, server_token,
                   reconnect_attempts, keepalive_workers, tpc, notConn>>

\* disconnect(): self.ws = None
Conn_disconnect_ws_none ==
    /\ upc = "disconnect_138"
    /\ ws' = 0
    /\ upc' = "disconnect_140"
    /\ ev' = NoEv
    /\ UNCHANGED <<connected, authenticated, client_token, server_token,
                   reconnect_attempts, keepalive_workers, sock, tpc, dcall, user_closed, notConn>>

\* disconnect(): self.connected = False
Conn_disconnect_connected ==
    /\ upc = "disconnect_140"
    /\ connected' = FALSE
    /\ upc' = "disconnect_141"
    /\ ev' = NoEv
    /\ UNCHANGED <<ws, authenticated, client_token, server_token,
                   reconnect_attempts, keepalive_workers, sock, tpc, dcall, user_closed, notConn>>

\* disconnect(): self.authenticated = False, and return
Conn_disconnect_return ==
    /\ upc = "disconnect_141"
    /\ authenticated' = FALSE
    /\ upc' = "idle"
    /\ ev' = Ev("disconnect", NoFrame, dcall, <<>>, <<>>)
    /\ dcall' = NoCall
    /\ UNCHANGED <<ws, connected, client_token, server_token,
                   reconnect_attempts, keepalive_workers, sock, tpc, user_closed, notConn>>

\* send_message(data): raises when not connected or without a socket, or
\* when ws.send raises; else writes the frame and returns its tag
send_message_raises(conn, w) == ~conn \/ w = 0

Conn_send_message ==
    /\ upc = "idle"
    /\ ev' = IF send_message_raises(connected, ws)
             THEN Ev("send_message", NoFrame, "WAConnectionError", <<>>, <<>>)
             ELSE IF ws_send_ok(sock, ws)
                  THEN Ev("send_message", NoFrame, "tag", <<"message">>, <<>>)
                  ELSE Ev("send_message", NoFrame, "WAConnectionError", <<>>, <<>>)
    /\ UNCHANGED <<ws, connected, authenticated, client_token, server_token,
                   reconnect_attempts, keepalive_workers, sock, tpc, upc, dcall, user_closed, notConn>>

\* the handshake of WebSocketApp id succeeds and its thread calls _on_open:
\* connected, attempts reset, _send_init_message() through send_message
Conn_on_open(id) ==
    /\ sock[id] = "connecting"
    /\ tpc[id] = "run"
    /\ sock' = [sock EXCEPT ![id] = "open"]
    /\ connected' = TRUE
    /\ reconnect_attempts' = 0
    /\ ev' = IF ~send_message_raises(TRUE, ws) /\ ws_send_ok(sock', ws)
             THEN Ev("_on_open", NoFrame, "None", <<"admin">>, <<>>)
             ELSE Ev("_on_open", NoFrame, "WAConnectionError", <<>>, <<>>)
    /\ UNCHANGED <<ws, authenticated, client_token, server_token,
                   keepalive_workers, tpc, upc, dcall, user_closed, notConn>>

\* the handshake of WebSocketApp id fails: run_forever tears down
Conn_ws_fail(id) ==
    /\ sock[id] = "connecting"
    /\ tpc[id] = "run"
    /\ sock' = [sock EXCEPT ![id] = "closing"]
    /\ ev' = NoEv
    /\ UNCHANGED <<ws, connected, authenticated, client_token, server_token,
                   reconnect_attempts, keepalive_workers, tpc, upc, dcall, user_closed, notConn>>

\* the server closes WebSocketApp id, or the network drops it
Conn_ws_lost(id) ==
    /\ sock[id] = "open"
    /\ tpc[id] = "run"
    /\ sock' = [sock EXCEPT ![id] = "closing"]
    /\ ev' = NoEv
    /\ UNCHANGED <<ws, connected, authenticated, client_token, server_token,
                   reconnect_attempts, keepalive_workers, tpc, upc, dcall, user_closed, notConn>>

\* the thread of WebSocketApp id has read a frame and is about to call
\* _on_message with it
Conn_recv(id) ==
    /\ sock[id] = "open"
    /\ tpc[id] = "run"
    /\ tpc' = [tpc EXCEPT ![id] = "msg"]
    /\ ev' = NoEv
    /\ UNCHANGED <<ws, connected, authenticated, client_token, server_token,
                   reconnect_attempts, keepalive_workers, sock, upc, dcall, user_closed, notConn>>

\* _on_message: the connection-success test, and a version of it that
\* tests for the wrong status
is_connect_success_mutant(tag, data) == tag = T_s1 /\ data.json = "dict" /\ data.status = 401

is_connect_success(tag, data) == tag = T_s1 /\ data.json = "dict" /\ data.status = 200

\* _on_message without the len(parts) < 2 test: a frame that has no comma
\* is handled as a tag with an empty payload
on_message_branch_lenient(m) ==
    IF ~m.comma /\ m.head = <<>> THEN "empty"
    ELSE IF StartsWith(m.head, T_pong) THEN "pong"
    ELSE IF is_connect_success(m.head, m.data) THEN "success"
    ELSE "message"

\* _on_message: which branch a frame takes
on_message_branch(m) ==
    IF ~m.comma /\ m.head = <<>> THEN "empty"
    ELSE IF ~m.comma THEN "malformed"
    ELSE IF StartsWith(m.head, T_pong) THEN "pong"
    ELSE IF is_connect_success(m.head, m.data) THEN "success"
    ELSE "message"

\* _on_message(ws, m), with on_connect / on_message callbacks registered
Conn_on_message(id, m) ==
    /\ tpc[id] = "msg"
    /\ LET b == on_message_branch(m)
       IN  /\ IF b = "success"
              THEN /\ client_token' = m.data.clientToken
                   /\ server_token' = m.data.serverToken
                   /\ connected' = TRUE
              ELSE UNCHANGED <<client_token, server_token, connected>>
           /\ ev' = Ev("_on_message", m, b, <<>>,
                       IF b = "success" THEN <<"connect">>
                       ELSE IF b = "message" THEN <<"message">> ELSE <<>>)
    /\ tpc' = [tpc EXCEPT ![id] = "run"]
    /\ UNCHANGED <<ws, authenticated, reconnect_attempts, keepalive_workers, sock, upc, dcall, user_closed, notConn>>

\* _on_close: was_connected = self.connected; self.connected = False; the
\* close callback; when was_connected, reconnect() up to its time.sleep
Conn_on_close(id) ==
    /\ sock[id] = "closing"
    /\ tpc[id] = "run"
    /\ sock' = [sock EXCEPT ![id] = "closed"]
    /\ connected' = FALSE
    /\ IF ~connected
       THEN /\ tpc' = [tpc EXCEPT ![id] = "none"]
            /\ ev' = Ev("_on_close", NoFrame, "none", <<>>, <<"close">>)
            /\ UNCHANGED reconnect_attempts
       ELSE IF reconnect_attempts >= max_reconnect_attempts
       THEN /\ tpc' = [tpc EXCEPT ![id] = "none"]
            /\ ev' = Ev("_on_close", NoFrame, "reconnect False", <<>>, <<"close">>)
            /\ UNCHANGED reconnect_attempts
       ELSE /\ tpc' = [tpc EXCEPT ![id] = "sleep"]
            /\ ev' = Ev("_on_close", NoFrame, "reconnect", <<>>, <<"close">>)
            /\ reconnect_attempts' = reconnect_attempts + 1
    /\ UNCHANGED <<ws, authenticated, client_token, server_token,
                   keepalive_workers, upc, dcall, user_closed, notConn>>

\* reconnect() after the sleep: close the old socket, self.ws = None,
\* self.connected = False, then connect() up to the start of the new thread
Conn_reconnect_connect(id) ==
    /\ tpc[id] = "sleep"
    /\ keepalive_workers < MaxWorkers
    /\ FreeIds # {}
    /\ LET new == NewId IN
        /\ ws' = new
        /\ sock' = [ws_close(sock, ws) EXCEPT ![new] = "connecting"]
        /\ tpc' = [tpc EXCEPT ![id] = "poll", ![new] = "run"]
    /\ connected' = FALSE
    /\ ev' = Ev("reconnect_connect", NoFrame, "none", <<>>, <<>>)
    /\ UNCHANGED <<authenticated, client_token, server_token,
                   reconnect_attempts, keepalive_workers, upc, dcall, user_closed, notConn>>

\* reconnect(): the wait loop of its connect() ends, reconnect() returns
Conn_reconnect_return(id) ==
    /\ tpc[id] = "poll"
    /\ tpc' = [tpc EXCEPT ![id] = "none"]
    /\ IF connected
       THEN /\ keepalive_workers' = keepalive_workers + 1
            /\ ev' = Ev("reconnect_return", NoFrame, "True", <<>>, <<>>)
       ELSE /\ UNCHANGED keepalive_workers
            /\ ev' = Ev("reconnect_return", NoFrame, "False", <<>>, <<>>)
    /\ UNCHANGED <<ws, connected, authenticated, client_token, server_token,
                   reconnect_attempts, sock, upc, dcall, user_closed, notConn>>

\* one round of a keepalive_worker: ping while connected with a socket,
\* leave the loop otherwise or when ws.send raises
Conn_keepalive_worker ==
    /\ keepalive_workers > 0
    /\ IF connected /\ ws # 0 /\ ws_send_ok(sock, ws)
       THEN /\ ev' = Ev("keepalive_worker", NoFrame, "ping", <<"?,,">>, <<>>)
            /\ UNCHANGED keepalive_workers
       ELSE /\ ev' = Ev("keepalive_worker", NoFrame, "exit", <<>>, <<>>)
            /\ keepalive_workers' = keepalive_workers - 1
    /\ UNCHANGED <<ws, connected, authenticated, client_token, server_token,
                   reconnect_attempts, sock, tpc, upc, dcall, user_closed, notConn>>

(***************************************************************************)
(* whatsapp_web_py_improved: EventEmitter (events.py), WAConnection        *)
(* (connection.py) and WAClient (client.py).  Everything runs on one       *)
(* asyncio loop, so a step is the code a task runs between two awaits.     *)
(* Task 0 is the application's coroutine; tasks 1..MaxTasks are the        *)
(* reconnect() tasks that _handle_connection_closed creates.               *)
(***************************************************************************)
RecursionLimit == 2      \* nesting depth at which the interpreter raises RecursionError
MaxTasks == 1            \* reconnect() tasks alive at the same time
MaxHandled == 2          \* cap of the i_handled count
NumUrls == 3             \* len(_get_connection_urls())
MAX_RECONNECT_ATTEMPTS == 10

EventTypes == {"qr_code", "connected", "authenticated", "conn_state", "disconnected",
               "message", "message_received", "message_sent"}
\* the events the application registers callbacks for
AppEvents == {"qr_code", "authenticated", "conn_state"}
\* the events the application registers one-shot callbacks for
OnceEvents == {"qr_code"}

TaskIds == 0..MaxTasks
Idle == [pc |-> "idle", k |-> 0, op |-> "none"]
FreeTasks == {t \in 1..MaxTasks : i_task[t] = Idle}
NewTask == CHOOSE t \in FreeTasks : \A u \in FreeTasks : t <= u

\* dict.get(k, def)
DictGet(d, k, def) == IF k \in DOMAIN d THEN d[k] ELSE def

\* what one step did: the operation, the task that ran it, the frame it
\* handled, its result and the application callbacks it invoked, in order
IEv(op, t, frame, result, calls) ==
    [op |-> op, t |-> t, frame |-> frame, result |-> result, calls |-> calls]
NoIEv == IEv("none", 0, NoFrame, "none", <<>>)

\* the state that callbacks run by emit() read and write
Es0 == [auth |-> c_authenticated, qr |-> qr_code, once |-> i_once, calls |-> <<>>]

RECURSIVE emit(_, _, _, _), call_all(_, _, _, _, _)

\* WAClient._handle_qr_code
handle_qr_code(es, data, depth) ==
    emit([es EXCEPT !.qr = DictGet(data, "qr", "")], "qr_code",
         [qrCode |-> DictGet(data, "qr", "")], depth + 1)

\* WAClient._handle_authentication
handle_authentication(es, data, depth) ==
    emit([es EXCEPT !.auth = TRUE], "authenticated",
         [user |-> DictGet(data, "user", NoVal)], depth + 1)

\* WAClient._handle_message
handle_message(es, data, depth) == emit(es, "message_received", data, depth + 1)

\* WAClient._handle_connection_state
handle_connection_state(es, data, depth) ==
    emit([es EXCEPT !.auth = IF DictGet(data, "new", NoVal) = "disconnected" /\ es.auth
                             THEN FALSE ELSE @],
         "conn_state", data, depth + 1)

\* callback(data) inside emit's try/except.  The client's own handlers emit
\* again; at the recursion limit their call raises RecursionError, which
\* emit catches and logs.  An application callback just records the call.
call(es, cb, event, data, depth) ==
    IF cb \in {"_handle_qr_code", "_handle_authentication", "_handle_message",
               "_handle_connection_state"}
    THEN IF depth >= RecursionLimit THEN es
         ELSE IF cb = "_handle_qr_code" THEN handle_qr_code(es, data, depth)
         ELSE IF cb = "_handle_authentication" THEN handle_authentication(es, data, depth)
         ELSE IF cb = "_handle_message" THEN handle_message(es, data, depth)
         ELSE handle_connection_state(es, data, depth)
    ELSE [es EXCEPT !.calls = Append(@, [cb |-> cb, event |-> event, data |-> data])]

call_all(es, cbs, event, data, depth) ==
    IF cbs = <<>> THEN es
    ELSE call_all(call(es, Head(cbs), event, data, depth), Tail(cbs), event, data, depth)

\* emit that calls the once listeners without emptying their list first
emit_once_kept(es, event, data, depth) ==
    Bind(call_all(es, i_listeners[event], event, data, depth), LAMBDA es1 :
        IF es1.once[event] = <<>> THEN es1
        ELSE call_all(es1, es1.once[event], event, data, depth))

\* EventEmitter.emit: the regular listeners in registration order, then the
\* once listeners, whose list is copied and emptied before they are called
emit(es, event, data, depth) ==
    Bind(call_all(es, i_listeners[event], event, data, depth), LAMBDA es1 :
        IF es1.once[event] = <<>> THEN es1
        ELSE call_all([es1 EXCEPT !.once[event] = <<>>], es1.once[event], event, data, depth))

\* WAConnection._update_state
update_state(es, old, new) ==
    IF new # old THEN emit(es, "conn_state", [old |-> old, new |-> new], 0) ELSE es

\* a step that runs F on the value v
With(v, F(_)) == F(v)

Commit(es) ==
    /\ c_authenticated' = es.auth
    /\ qr_code' = es.qr
    /\ i_once' = es.once

\* the transport the listener task iterates over
ListenerTransport ==
    IF i_listener = "att" THEN i_ws
    ELSE IF i_listener = "det_open" THEN "open"
    ELSE IF i_listener = "det_lost" THEN "lost"
    ELSE "closed"

\* self.ws is rebound while the listener still iterates over the old transport
Detach(l, tr) ==
    IF l # "att" THEN l
    ELSE IF tr = "open" THEN "det_open"
    ELSE IF tr = "lost" THEN "det_lost"
    ELSE "det_closed"

\* WebSocket.close()
i_ws_close(tr) == IF tr = "open" THEN "closed" ELSE tr

InitImp ==
    /\ i_state = "disconnected"
    /\ i_authenticated = FALSE
    /\ i_closing = FALSE
    /\ i_ws = "none"
    /\ i_client_token = NoVal
    /\ i_server_token = NoVal
    /\ attempt_count = 0
    /\ i_listener = "none"
    /\ i_keepalive = "none"
    /\ i_stop = 0
    /\ i_task = [t \in TaskIds |-> Idle]
    /\ c_authenticated = FALSE
    /\ qr_code = NoVal
    /\ i_listeners = [e \in EventTypes |->
                        IF e = "qr_code" THEN <<"_handle_qr_code">>
                        ELSE IF e = "authenticated" THEN <<"_handle_authentication">>
                        ELSE IF e = "message_received" THEN <<"_handle_message">>
                        ELSE IF e = "conn_state" THEN <<"_handle_connection_state">>
                        ELSE <<>>]
    /\ i_once = [e \in EventTypes |-> <<>>]
    /\ i_fails = 0
    /\ i_handled = 0
    /\ i_ev = NoIEv

\* WAClient.register_callback -> EventEmitter.on: the application registers
\* its callback for each of AppEvents (one block of calls, no await between)
Imp_register_callback ==
    /\ i_task[0] = Idle
    /\ \A e \in AppEvents : ~Contains(i_listeners[e], "app")
    /\ i_listeners' = [e \in EventTypes |->
                         IF e \in AppEvents THEN Append(i_listeners[e], "app") ELSE i_listeners[e]]
    /\ i_ev' = NoIEv
    /\ UNCHANGED <<i_state, i_authenticated, i_closing, i_ws, i_client_token, i_server_token,
                   attempt_count, i_listener, i_keepalive, i_stop, i_task,
                   c_authenticated, qr_code, i_once, i_fails, i_handled, notImp>>

\* WAClient.register_once_callback -> EventEmitter.once
Imp_register_once_callback(e) ==
    /\ i_task[0] = Idle
    /\ i_once[e] = <<>>
    /\ i_once' = [i_once EXCEPT ![e] = Append(@, "app_once")]
    /\ i_ev' = NoIEv
    /\ UNCHANGED <<i_state, i_authenticated, i_closing, i_ws, i_client_token, i_server_token,
                   attempt_count, i_listener, i_keepalive, i_stop, i_task,
                   c_authenticated, qr_code, i_listeners, i_fails, i_handled, notImp>>

\* WAConnection.connect up to its first await (lines 114-126), run by task
\* t on behalf of connect() or reconnect()
ConnectBegin(t, op) ==
    IF i_state = "connected" THEN
        /\ i_task' = [i_task EXCEPT ![t] = Idle]
        /\ i_ev' = IEv(op, t, NoFrame, "True", <<>>)
        /\ UNCHANGED <<i_state, attempt_count, c_authenticated, qr_code, i_once>>
    ELSE IF i_state = "connecting" THEN
        /\ i_task' = [i_task EXCEPT ![t] = Idle]
        /\ i_ev' = IEv(op, t, NoFrame, "False", <<>>)
        /\ UNCHANGED <<i_state, attempt_count, c_authenticated, qr_code, i_once>>
    ELSE
        With(update_state(Es0, i_state, "connecting"), LAMBDA es :
            /\ i_state' = "connecting"
            /\ attempt_count' = 0                      \* reconnect_manager.reset()
            /\ i_task' = [i_task EXCEPT ![t] = [pc |-> "url", k |-> 1, op |-> op]]
            /\ Commit(es)
            /\ i_ev' = IEv(op, t, NoFrame, "connecting", es.calls))

\* WAClient.connect -> WAConnection.connect
Imp_connect ==
    /\ i_task[0] = Idle
    /\ ConnectBegin(0, "connect")
    /\ i_fails' = 0
    /\ UNCHANGED i_handled
    /\ UNCHANGED <<i_authenticated, i_closing, i_ws, i_client_token, i_server_token,
                   i_listener, i_keepalive, i_stop, i_listeners, notImp>>

\* i_fails after an attempt of task t has failed: it counts the attempts of
\* the reconnect tasks that _handle_connection_closed created, and starts
\* again at 0 with a successful connect and with every call the application
\* makes to connect, reconnect or disconnect
Failed(t) ==
    IF t # 0 /\ i_task[t].op = "reconnect"
    THEN Min(i_fails + 1, MAX_RECONNECT_ATTEMPTS) ELSE i_fails

\* one turn of the URL loop of connect (lines 130-166): websockets.connect
\* raises ("fail"), or returns a transport on which the init message is
\* sent ("ok"), or returns one that is lost before the init message is
\* written, so that send_message raises and the loop goes on ("ok_lost")
Imp_connect_url(t, outcome) ==
    /\ i_task[t].pc = "url"
    /\ IF outcome = "ok" THEN
           With(update_state(Es0, i_state, "connected"), LAMBDA es :
               /\ i_ws' = "open"
               /\ i_state' = "connected"
               /\ i_listener' = "att"
               /\ i_keepalive' = "run"
               /\ i_task' = [i_task EXCEPT ![t] = Idle]
               /\ Commit(es)
               /\ i_fails' = 0
               /\ i_handled' = 0
               /\ i_ev' = IEv(i_task[t].op, t, NoFrame, "True", es.calls))
       ELSE IF outcome = "ok_lost" THEN
           With(update_state(Es0, i_state, "connected"), LAMBDA es :
               /\ i_ws' = "lost"
               /\ i_listener' = "att"
               /\ i_keepalive' = "run"
               /\ i_handled' = 0
               /\ IF i_task[t].k < NumUrls THEN
                      /\ i_state' = "connected"
                      /\ i_task' = [i_task EXCEPT ![t].k = @ + 1]
                      /\ Commit(es)
                      /\ i_ev' = IEv(i_task[t].op, t, NoFrame, "next url", es.calls)
                      /\ UNCHANGED i_fails
                  ELSE
                      /\ i_state' = "disconnected"
                      /\ With(update_state([es EXCEPT !.calls = <<>>], "connected", "disconnected"),
                              LAMBDA es2 :
                                  /\ i_task' = [i_task EXCEPT ![t] = Idle]
                                  /\ Commit(es2)
                                  /\ i_fails' = Failed(t)
                                  /\ i_ev' = IEv(i_task[t].op, t, NoFrame,
                                                 IF i_task[t].op = "reconnect" THEN "False"
                                                 ELSE "WAConnectionError",
                                                 es.calls \o es2.calls)))
       ELSE
           /\ UNCHANGED <<i_ws, i_listener, i_keepalive, i_handled>>
           /\ IF i_task[t].k < NumUrls THEN
                  /\ i_task' = [i_task EXCEPT ![t].k = @ + 1]
                  /\ i_ev' = NoIEv
                  /\ UNCHANGED <<i_state, c_authenticated, qr_code, i_once, i_fails>>
              ELSE
                  With(update_state(Es0, i_state, "disconnected"), LAMBDA es2 :
                      /\ i_state' = "disconnected"
                      /\ i_task' = [i_task EXCEPT ![t] = Idle]
                      /\ Commit(es2)
                      /\ i_fails' = Failed(t)
                      /\ i_ev' = IEv(i_task[t].op, t, NoFrame,
                                     IF i_task[t].op = "reconnect" THEN "False"
                                     ELSE "WAConnectionError",
                                     es2.calls))
    /\ UNCHANGED <<i_authenticated, i_closing, i_client_token, i_server_token,
                   attempt_count, i_stop, i_listeners, notImp>>

\* WAConnection.disconnect, lines 176-184: up to the await in _stop_keepalive
Imp_disconnect ==
    /\ i_task[0] = Idle
    /\ IF i_state # "connected" THEN
           /\ i_ev' = IEv("disconnect", 0, NoFrame, "not connected", <<>>)
           /\ UNCHANGED <<i_state, i_closing, i_keepalive, i_task,
                          c_authenticated, qr_code, i_once>>
       ELSE
           With(update_state(Es0, i_state, "disconnecting"), LAMBDA es :
               /\ i_state' = "disconnecting"
               /\ i_closing' = TRUE
               /\ i_keepalive' = "none"
               /\ i_task' = [i_task EXCEPT ![0] = [pc |-> "d_ka", k |-> 0, op |-> "disconnect"]]
               /\ Commit(es)
               /\ i_ev' = IEv("disconnect", 0, NoFrame, "disconnecting", es.calls))
    /\ i_fails' = 0
    /\ UNCHANGED <<i_authenticated, i_ws, i_client_token, i_server_token,
                   attempt_count, i_listener, i_stop, i_listeners, i_handled, notImp>>

\* lines 187-193: the listener task is cancelled and awaited
Imp_disconnect_listener ==
    /\ i_task[0].pc = "d_ka"
    /\ i_listener' = "none"
    /\ i_task' = [i_task EXCEPT ![0].pc = "d_li"]
    /\ i_ev' = NoIEv
    /\ UNCHANGED <<i_state, i_authenticated, i_closing, i_ws, i_client_token, i_server_token,
                   attempt_count, i_keepalive, i_stop,
                   c_authenticated, qr_code, i_listeners, i_once, i_fails, i_handled, notImp>>

\* lines 196-198: await self.ws.close()
Imp_disconnect_close ==
    /\ i_task[0].pc = "d_li"
    /\ i_ws' = i_ws_close(i_ws)
    /\ i_task' = [i_task EXCEPT ![0].pc = "d_ws"]
    /\ i_ev' = NoIEv
    /\ UNCHANGED <<i_state, i_authenticated, i_closing, i_client_token, i_server_token,
                   attempt_count, i_listener, i_keepalive, i_stop,
                   c_authenticated, qr_code, i_listeners, i_once, i_fails, i_handled, notImp>>

\* lines 201-207: self.ws = None, _closing = False, Disconnected, return
Imp_disconnect_return ==
    /\ i_task[0].pc = "d_ws"
    /\ With(update_state(Es0, i_state, "disconnected"), LAMBDA es :
           /\ i_listener' = Detach(i_listener, i_ws)
           /\ i_ws' = "none"
           /\ i_closing' = FALSE
           /\ i_state' = "disconnected"
           /\ i_authenticated' = FALSE
           /\ i_task' = [i_task EXCEPT ![0] = Idle]
           /\ Commit(es)
           /\ i_ev' = IEv("disconnect", 0, NoFrame, "return", es.calls))
    /\ UNCHANGED <<i_client_token, i_server_token, attempt_count, i_keepalive, i_stop,
                   i_listeners, i_fails, i_handled, notImp>>

\* WAConnection.reconnect up to its sleep (lines 216-240)
ReconnectBegin(t) ==
    IF i_closing THEN
        /\ i_task' = [i_task EXCEPT ![t] = Idle]
        /\ i_ev' = IEv("reconnect", t, NoFrame, "False", <<>>)
        /\ UNCHANGED <<i_state, attempt_count, c_authenticated, qr_code, i_once>>
    ELSE IF i_state = "connected" THEN
        /\ i_task' = [i_task EXCEPT ![t] = Idle]
        /\ i_ev' = IEv("reconnect", t, NoFrame, "True", <<>>)
        /\ UNCHANGED <<i_state, attempt_count, c_authenticated, qr_code, i_once>>
    ELSE IF ~(attempt_count < MAX_RECONNECT_ATTEMPTS) THEN      \* not can_retry()
        With(update_state(Es0, i_state, "reconnecting"), LAMBDA es :
        With(update_state([es EXCEPT !.calls = <<>>], "reconnecting", "disconnected"), LAMBDA es2 :
            /\ i_state' = "disconnected"
            /\ i_task' = [i_task EXCEPT ![t] = Idle]
            /\ Commit(es2)
            /\ i_ev' = IEv("reconnect", t, NoFrame, "gave up", es.calls \o es2.calls)
            /\ UNCHANGED attempt_count))
    ELSE
        With(update_state(Es0, i_state, "reconnecting"), LAMBDA es :
            /\ i_state' = "reconnecting"
            /\ attempt_count' = attempt_count + 1          \* get_next_delay_seconds()
            /\ i_task' = [i_task EXCEPT ![t] = [pc |-> "rc_sleep", k |-> 0, op |-> "reconnect"]]
            /\ Commit(es)
            /\ i_ev' = IEv("reconnect", t, NoFrame, "sleep", es.calls))

\* reconnect() called by the application
Imp_reconnect ==
    /\ i_task[0] = Idle
    /\ ReconnectBegin(0)
    /\ i_fails' = 0
    /\ UNCHANGED <<i_authenticated, i_closing, i_ws, i_client_token, i_server_token,
                   i_listener, i_keepalive, i_stop, i_listeners, i_handled, notImp>>

\* a reconnect() task created by _handle_connection_closed starts to run
Imp_reconnect_task(t) ==
    /\ i_task[t].pc = "rc_start"
    /\ ReconnectBegin(t)
    /\ UNCHANGED <<i_authenticated, i_closing, i_ws, i_client_token, i_server_token,
                   i_listener, i_keepalive, i_stop, i_listeners, i_fails, i_handled, notImp>>

\* the sleep is over (lines 242-252): close the old transport if there is
\* one, else go straight into connect()
Imp_reconnect_wake(t) ==
    /\ i_task[t].pc = "rc_sleep"
    /\ IF i_ws # "none" THEN
           /\ i_ws' = i_ws_close(i_ws)
           /\ i_task' = [i_task EXCEPT ![t].pc = "rc_close"]
           /\ i_ev' = NoIEv
           /\ UNCHANGED <<i_state, attempt_count, c_authenticated, qr_code, i_once, i_fails>>
       ELSE
           /\ ConnectBegin(t, "reconnect")
           /\ UNCHANGED <<i_ws, i_fails>>
    /\ UNCHANGED <<i_authenticated, i_closing, i_client_token, i_server_token,
                   i_listener, i_keepalive, i_stop, i_listeners, i_handled, notImp>>

\* ws.close() has returned (lines 249-252): self.ws = None, then connect()
Imp_reconnect_closed(t) ==
    /\ i_task[t].pc = "rc_close"
    /\ i_listener' = Detach(i_listener, i_ws)
    /\ i_ws' = "none"
    /\ ConnectBegin(t, "reconnect")
    /\ UNCHANGED <<i_authenticated, i_closing, i_client_token, i_server_token,
                   i_keepalive, i_stop, i_listeners, i_fails, i_handled, notImp>>

\* WAConnection.send_message (lines 259-293)
Imp_conn_send_message ==
    /\ i_task[0] = Idle
    /\ i_ev' = IEv("connection.send_message", 0, NoFrame,
                   IF i_state # "connected" \/ i_ws = "none" THEN "WAConnectionError"
                   ELSE IF i_ws = "open" THEN "tag"
                   ELSE "WAConnectionError",
                   <<>>)
    /\ UNCHANGED <<i_state, i_authenticated, i_closing, i_ws, i_client_token, i_server_token,
                   attempt_count, i_listener, i_keepalive, i_stop, i_task,
                   c_authenticated, qr_code, i_listeners, i_once, i_fails, i_handled, notImp>>

\* WAClient.send_message (lines 171-227): raises WAMessageError when not
\* authenticated; otherwise it emits MESSAGE_SENT and returns the result
\* (no frame is written by this method)
Imp_client_send_message ==
    /\ i_task[0] = Idle
    /\ IF ~c_authenticated THEN
           /\ i_ev' = IEv("client.send_message", 0, NoFrame, "WAMessageError", <<>>)
           /\ UNCHANGED <<c_authenticated, qr_code, i_once>>
       ELSE
           With(emit(Es0, "message_sent", [id |-> "msg"], 0), LAMBDA es :
               /\ Commit(es)
               /\ i_ev' = IEv("client.send_message", 0, NoFrame, "msg", es.calls))
    /\ UNCHANGED <<i_state, i_authenticated, i_closing, i_ws, i_client_token, i_server_token,
                   attempt_count, i_listener, i_keepalive, i_stop, i_task,
                   i_listeners, i_fails, i_handled, notImp>>

\* the peer or the network drops the transport
Imp_transport_lost ==
    /\ \/ /\ i_ws = "open"
          /\ i_ws' = "lost"
          /\ UNCHANGED i_listener
       \/ /\ i_listener = "det_open"
          /\ i_listener' = "det_lost"
          /\ UNCHANGED i_ws
    /\ i_ev' = NoIEv
    /\ UNCHANGED <<i_state, i_authenticated, i_closing, i_client_token, i_server_token,
                   attempt_count, i_keepalive, i_stop, i_task,
                   c_authenticated, qr_code, i_listeners, i_once, i_fails, i_handled, notImp>>

\* WAConnection._process_message (lines 438-477) on tag and data
process_message(es, m) ==
    IF m.head = T_s1 /\ m.data.json = "dict" /\ m.data.status = 200 THEN
        emit(es, "connected", [clientToken |-> m.data.clientToken,
                               serverToken |-> m.data.serverToken], 0)
    ELSE IF m.head = T_s1 /\ m.data.json = "dict" /\ m.data.status = 401 THEN
        IF m.data.ref \notin {NoVal, ""} THEN emit(es, "qr_code", [qr |-> m.data.ref], 0)
        ELSE es
    ELSE emit(es, "message", [tag |-> m.head, data |-> m.data], 0)

\* one turn of the loop of _listen_for_messages (lines 375-403): a frame
\* without a comma and a pong frame are skipped, the others are processed
Imp_listen(m) ==
    /\ i_listener # "none"
    /\ ListenerTransport = "open"
    /\ IF ~m.comma \/ StartsWith(m.head, T_pong) THEN
           /\ i_ev' = IEv("_listen_for_messages", 0, m, "skipped", <<>>)
           /\ UNCHANGED <<i_client_token, i_server_token, c_authenticated, qr_code, i_once>>
       ELSE
           With(process_message(Es0, m), LAMBDA es :
               /\ IF m.head = T_s1 /\ m.data.json = "dict" /\ m.data.status = 200
                  THEN /\ i_client_token' = m.data.clientToken
                       /\ i_server_token' = m.data.serverToken
                  ELSE UNCHANGED <<i_client_token, i_server_token>>
               /\ Commit(es)
               /\ i_ev' = IEv("_process_message", 0, m, "processed", es.calls))
    /\ UNCHANGED <<i_state, i_authenticated, i_closing, i_ws,
                   attempt_count, i_listener, i_keepalive, i_stop, i_task,
                   i_listeners, i_fails, i_handled, notImp>>

\* WAConnection._handle_connection_closed (lines 417-436) when _closing is
\* false: Disconnected, a _stop_keepalive task, the DISCONNECTED event and a
\* reconnect() task
HandleClosed(op) ==
    /\ FreeTasks # {}
    /\ i_stop < MaxTasks
    /\ With(update_state(Es0, i_state, "disconnected"), LAMBDA es :
       With(emit(es, "disconnected", [reason |-> "connection_closed"], 0), LAMBDA es2 :
           /\ i_state' = "disconnected"
           /\ i_stop' = i_stop + 1
           /\ i_handled' = Min(i_handled + 1, MaxHandled)
           /\ i_task' = [i_task EXCEPT ![NewTask] = [pc |-> "rc_start", k |-> 0, op |-> "reconnect"]]
           /\ Commit(es2)
           /\ i_ev' = IEv(op, NewTask, NoFrame, "_handle_connection_closed", es2.calls)))

\* the listener's iteration ends (lines 405-415): silently when the
\* transport was closed from this side, with ConnectionClosed and
\* _handle_connection_closed when it was lost
Imp_listen_closed ==
    /\ i_listener # "none"
    /\ ListenerTransport \in {"lost", "closed"}
    /\ i_listener' = "none"
    /\ IF ListenerTransport = "lost" /\ ~i_closing
       THEN HandleClosed("_listen_for_messages")
       ELSE /\ i_ev' = NoIEv
            /\ UNCHANGED <<i_state, i_stop, i_task, i_handled, c_authenticated, qr_code, i_once>>
    /\ UNCHANGED <<i_authenticated, i_closing, i_ws, i_client_token, i_server_token,
                   attempt_count, i_keepalive, i_listeners, i_fails, notImp>>

\* one turn of _keepalive_loop (lines 508-529): the loop ends when the
\* connection is not connected; a keepalive timeout or a failed send ends in
\* _handle_connection_closed; otherwise the ping is sent
Imp_keepalive(timeout) ==
    /\ i_keepalive = "run"
    /\ IF i_state # "connected" \/ i_ws = "none" THEN
           /\ i_keepalive' = "none"
           /\ i_ev' = NoIEv
           /\ UNCHANGED <<i_state, i_stop, i_task, i_handled, c_authenticated, qr_code, i_once>>
       ELSE IF timeout \/ i_ws # "open" THEN
           /\ i_keepalive' = "none"
           /\ IF ~i_closing THEN HandleClosed("_keepalive_loop")
              ELSE /\ i_ev' = NoIEv
                   /\ UNCHANGED <<i_state, i_stop, i_task, i_handled, c_authenticated, qr_code, i_once>>
       ELSE
           /\ i_ev' = NoIEv
           /\ UNCHANGED <<i_keepalive, i_state, i_stop, i_task, i_handled, c_authenticated, qr_code, i_once>>
    /\ UNCHANGED <<i_authenticated, i_closing, i_ws, i_client_token, i_server_token,
                   attempt_count, i_listener, i_listeners, i_fails, notImp>>

\* a _stop_keepalive task (lines 490-501) runs: the keepalive task is
\* cancelled
Imp_stop_keepalive ==
    /\ i_stop > 0
    /\ i_stop' = i_stop - 1
    /\ i_keepalive' = "none"
    /\ i_ev' = NoIEv
    /\ UNCHANGED <<i_state, i_authenticated, i_closing, i_ws, i_client_token, i_server_token,
                   attempt_count, i_listener, i_task,
                   c_authenticated, qr_code, i_listeners, i_once, i_fails, i_handled, notImp>>

(***************************************************************************)
(* wawspy/real_client.py: WAClient.  The caller's thread runs connect,     *)
(* disconnect, reconnect, send_message and _send_json; every WebSocketApp  *)
(* has a run_forever thread that calls _on_open, _on_message and           *)
(* _on_close; threading.Timer threads run connect (after reconnect) and    *)
(* _start_keepalive.  No lock is taken, so the threads interleave; a step  *)
(* is a run of statements up to the next blocking call.                    *)
(***************************************************************************)
R_MAX_RECONNECT_ATTEMPTS == 10
\* Timer threads of one kind alive at a time
MaxTimers == 1
\* WebSocketApp objects whose thread has not ended
MaxApps == 1
AppIds == 1..MaxApps
NoCode == 0                         \* close_status_code is None
CloseCodes == {NoCode, 1000, 1006}

\* what a call did: pre is what it found (connected, authenticated), how
\* the socket it handles came to close, raised the exception it raised, ret
\* what it returned, scheduled whether
\* it started a reconnect Timer, waiter the pending request whose callback
\* it called and the payload it passed
NoWaiter == [tag |-> <<>>, data |-> NoData]
RRes(pre, how, raised, ret, scheduled) ==
    [pre |-> pre, how |-> how, raised |-> raised, ret |-> ret, scheduled |-> scheduled,
     waiter |-> NoWaiter]
NoRRes == RRes(FALSE, "none", "none", "none", FALSE)

\* the frames the socket delivers: those of FramePool and "q1,{}"
RealFramePool == FramePool \cup {Frame(T_q1, Other)}
\* the tags under which the caller registers pending requests
RequestTags == {T_q1, T_s10}
NoREv == Ev("none", NoFrame, NoRRes, <<>>, <<>>)

RFreeIds == {i \in AppIds : r_sock[i] \in {"free", "closed"} /\ r_tpc[i] = "none"}
RNewId == CHOOSE i \in RFreeIds : \A j \in RFreeIds : i <= j

\* the callbacks the application registered are called; the others are None
Cb(names) == IF r_callbacks THEN names ELSE <<>>

\* WebSocketApp.close() called by `by`
r_ws_close(s, id, by) ==
    IF id # 0 /\ s[id] \in {"connecting", "open"} THEN [s EXCEPT ![id] = by] ELSE s

InitReal ==
    /\ r_state = "disconnected"
    /\ r_attempts = 0
    /\ r_authenticated = FALSE
    /\ r_client_token = NoVal
    /\ r_server_token = NoVal
    /\ r_ws = 0
    /\ r_sock = [i \in AppIds |-> "free"]
    /\ r_tpc = [i \in AppIds |-> "none"]
    /\ r_upc = "idle"
    /\ r_timers = 0
    /\ r_tconn = 0
    /\ r_keepalive = 0
    /\ r_callbacks = FALSE
    /\ r_pending = {}
    /\ r_ev = NoREv

\* WAClient.register_callback (lines 824-835) for each event type: the
\* application registers its callbacks
Real_register_callback ==
    /\ r_upc = "idle"
    /\ ~r_callbacks
    /\ r_callbacks' = TRUE
    /\ r_ev' = NoREv
    /\ UNCHANGED <<r_state, r_attempts, r_authenticated, r_client_token, r_server_token,
                   r_ws, r_sock, r_tpc, r_upc, r_timers, r_tconn, r_keepalive, r_pending, notReal>>

\* WAClient.connect, lines 267-271, by the caller
Real_connect ==
    /\ r_upc = "idle"
    /\ IF r_state \in {"connected", "connecting"} THEN
           /\ r_ev' = Ev("connect", NoFrame, RRes(TRUE, "none", "none", "None", FALSE), <<>>, <<>>)
           /\ UNCHANGED <<r_state, r_upc>>
       ELSE
           /\ r_state' = "connecting"
           /\ r_upc' = "connect"
           /\ r_ev' = NoREv
    /\ UNCHANGED <<r_attempts, r_authenticated, r_client_token, r_server_token,
                   r_ws, r_sock, r_tpc, r_timers, r_tconn, r_keepalive,
                   r_callbacks, r_pending, notReal>>

\* lines 277-365: the HTTP request and the WebSocketApp; on an exception
\* the state is Disconnected and connect returns (it raises nothing)
ConnectWs(ok) ==
    IF ok THEN
        /\ RFreeIds # {}
        /\ r_ws' = RNewId
        /\ r_sock' = [r_sock EXCEPT ![RNewId] = "connecting"]
        /\ r_tpc' = [r_tpc EXCEPT ![RNewId] = "run"]
        /\ r_ev' = Ev("connect", NoFrame, RRes(FALSE, "none", "none", "None", FALSE), <<>>, <<>>)
        /\ UNCHANGED r_state
    ELSE
        /\ r_state' = "disconnected"
        /\ r_ev' = Ev("connect", NoFrame, RRes(FALSE, "failed", "none", "None", FALSE), <<>>,
                      Cb(<<"connection_update">>))
        /\ UNCHANGED <<r_ws, r_sock, r_tpc>>

Real_connect_ws(ok) ==
    /\ r_upc = "connect"
    /\ r_upc' = "idle"
    /\ ConnectWs(ok)
    /\ UNCHANGED <<r_attempts, r_authenticated, r_client_token, r_server_token,
                   r_timers, r_tconn, r_keepalive, r_callbacks, r_pending, notReal>>

\* the Timer started by reconnect() fires: connect(), lines 267-271
Real_timer_connect ==
    /\ r_timers > 0
    /\ r_tconn < MaxTimers
    /\ r_timers' = r_timers - 1
    /\ IF r_state \in {"connected", "connecting"} THEN
           UNCHANGED <<r_state, r_tconn>>
       ELSE
           /\ r_state' = "connecting"
           /\ r_tconn' = r_tconn + 1
    /\ r_ev' = Ev("timer connect", NoFrame, NoRRes, <<>>, <<>>)
    /\ UNCHANGED <<r_attempts, r_authenticated, r_client_token, r_server_token,
                   r_ws, r_sock, r_tpc, r_upc, r_keepalive, r_callbacks, r_pending, notReal>>

Real_timer_connect_ws(ok) ==
    /\ r_tconn > 0
    /\ r_tconn' = r_tconn - 1
    /\ ConnectWs(ok)
    /\ UNCHANGED <<r_attempts, r_authenticated, r_client_token, r_server_token,
                   r_upc, r_timers, r_keepalive, r_callbacks, r_pending, notReal>>

\* WAClient.disconnect, lines 371-379: up to the return of ws.close()
Real_disconnect ==
    /\ r_upc = "idle"
    /\ IF r_state = "disconnected" THEN
           /\ r_ev' = Ev("disconnect", NoFrame, RRes(FALSE, "none", "none", "None", FALSE), <<>>, <<>>)
           /\ UNCHANGED <<r_sock, r_upc>>
       ELSE
           /\ r_sock' = r_ws_close(r_sock, r_ws, "disconnect")
           /\ r_upc' = "disconnect"
           /\ r_ev' = NoREv
    /\ UNCHANGED <<r_state, r_attempts, r_authenticated, r_client_token, r_server_token,
                   r_ws, r_tpc, r_timers, r_tconn, r_keepalive, r_callbacks, r_pending, notReal>>

\* lines 381-386
Real_disconnect_return ==
    /\ r_upc = "disconnect"
    /\ r_state' = "disconnected"
    /\ r_upc' = "idle"
    /\ r_ev' = Ev("disconnect", NoFrame, RRes(TRUE, "none", "none", "None", FALSE), <<>>,
                  Cb(<<"disconnected">>))
    /\ UNCHANGED <<r_attempts, r_authenticated, r_client_token, r_server_token,
                   r_ws, r_sock, r_tpc, r_timers, r_tconn, r_keepalive,
                   r_callbacks, r_pending, notReal>>

\* WAClient.reconnect (lines 391-420) and what it did
Reconnect(op, pre, how) ==
    IF r_state \in {"connecting", "connected"} THEN
        /\ r_ev' = Ev(op, NoFrame, RRes(pre, how, "none", "None", FALSE), <<>>, <<>>)
        /\ UNCHANGED <<r_state, r_attempts, r_timers>>
    ELSE IF r_attempts + 1 > R_MAX_RECONNECT_ATTEMPTS THEN
        /\ r_attempts' = r_attempts + 1
        /\ r_state' = "disconnected"
        /\ r_ev' = Ev(op, NoFrame, RRes(pre, how, "none", "None", FALSE), <<>>, <<>>)
        /\ UNCHANGED r_timers
    ELSE
        /\ r_attempts' = r_attempts + 1
        /\ r_state' = "reconnecting"
        /\ r_timers' = r_timers + 1
        /\ r_ev' = Ev(op, NoFrame, RRes(pre, how, "none", "None", TRUE), <<>>,
                      Cb(<<"connection_update">>))

\* reconnect() called by the application
Real_reconnect ==
    /\ r_upc = "idle"
    /\ r_timers < MaxTimers
    /\ r_attempts <= R_MAX_RECONNECT_ATTEMPTS
    /\ Reconnect("reconnect", FALSE, "none")
    /\ UNCHANGED <<r_authenticated, r_client_token, r_server_token,
                   r_ws, r_sock, r_tpc, r_upc, r_tconn, r_keepalive,
                   r_callbacks, r_pending, notReal>>

\* WAClient._send_json (lines 737-764): returns "" when there is no
\* connection or the write fails, the tag otherwise; it raises nothing
send_json_ok == r_ws # 0 /\ r_state = "connected" /\ r_sock[r_ws] = "open"

Real_send_json ==
    /\ r_upc = "idle"
    /\ r_ev' = Ev("_send_json", NoFrame,
                  RRes(r_ws # 0 /\ r_state = "connected", "none", "none",
                       IF send_json_ok THEN "tag" ELSE "", FALSE),
                  IF send_json_ok THEN <<"tag">> ELSE <<>>, <<>>)
    /\ UNCHANGED <<r_state, r_attempts, r_authenticated, r_client_token, r_server_token,
                   r_ws, r_sock, r_tpc, r_upc, r_timers, r_tconn, r_keepalive,
                   r_callbacks, r_pending, notReal>>

\* WAClient._generate_message_tag (lines 211-220): "q", the time and the
\* counter; the model has one such tag
generate_message_tag == T_q1

\* WAClient.send_message (lines 878-924): returns "" when not authenticated,
\* else sends under a new tag and returns the message id; it raises nothing
Real_send_message ==
    /\ r_upc = "idle"
    /\ r_ev' = Ev("send_message", NoFrame,
                  RRes(r_authenticated, "none", "none",
                       IF r_authenticated THEN "message_id" ELSE "", FALSE),
                  IF r_authenticated /\ send_json_ok THEN <<generate_message_tag>> ELSE <<>>,
                  <<>>)
    /\ UNCHANGED <<r_state, r_attempts, r_authenticated, r_client_token, r_server_token,
                   r_ws, r_sock, r_tpc, r_upc, r_timers, r_tconn, r_keepalive,
                   r_callbacks, r_pending, notReal>>

\* WAClient._start_keepalive (lines 642-667), `stale` saying whether
\* last_seen is older than twice the keepalive interval: returns when not
\* connected, closes the socket when stale, else pings and starts the
\* next Timer.  The result is the sockets and whether a Timer was started.
start_keepalive(s, st, stale) ==
    IF st # "connected" \/ r_ws = 0 THEN [sock |-> s, timer |-> FALSE]
    ELSE IF stale THEN [sock |-> r_ws_close(s, r_ws, "keepalive"), timer |-> FALSE]
    ELSE [sock |-> s, timer |-> TRUE]

\* WAClient._on_open (lines 422-532)
Real_on_open(id, stale) ==
    /\ r_tpc[id] = "run"
    /\ r_sock[id] = "connecting"
    /\ r_keepalive < MaxTimers
    /\ r_state' = "connected"
    /\ r_attempts' = 0
    /\ r_sock' = start_keepalive([r_sock EXCEPT ![id] = "open"], "connected", stale).sock
    /\ r_keepalive' = IF start_keepalive(r_sock, "connected", stale).timer
                      THEN r_keepalive + 1 ELSE r_keepalive
    /\ r_ev' = Ev("_on_open", NoFrame, NoRRes,
                  IF r_ws = id \/ (r_ws # 0 /\ r_sock[r_ws] = "open") THEN <<"admin">> ELSE <<>>,
                  Cb(<<"connection_update">>))
    /\ UNCHANGED <<r_authenticated, r_client_token, r_server_token,
                   r_ws, r_tpc, r_upc, r_timers, r_tconn, r_callbacks, r_pending, notReal>>

\* a Timer started by _start_keepalive fires
Real_keepalive(stale) ==
    /\ r_keepalive > 0
    /\ r_sock' = start_keepalive(r_sock, r_state, stale).sock
    /\ r_keepalive' = IF start_keepalive(r_sock, r_state, stale).timer
                      THEN r_keepalive ELSE r_keepalive - 1
    /\ r_ev' = Ev("_start_keepalive", NoFrame, NoRRes, <<>>, <<>>)
    /\ UNCHANGED <<r_state, r_attempts, r_authenticated, r_client_token, r_server_token,
                   r_ws, r_tpc, r_upc, r_timers, r_tconn, r_callbacks, r_pending, notReal>>

\* the connection attempt fails, or the peer or the network ends the socket
Real_ws_lost(id) ==
    /\ r_tpc[id] = "run"
    /\ r_sock[id] \in {"connecting", "open"}
    /\ r_sock' = [r_sock EXCEPT ![id] = "lost"]
    /\ r_ev' = NoREv
    /\ UNCHANGED <<r_state, r_attempts, r_authenticated, r_client_token, r_server_token,
                   r_ws, r_tpc, r_upc, r_timers, r_tconn, r_keepalive,
                   r_callbacks, r_pending, notReal>>

\* _process_message, lines 708-714: the dict passed to the connected callback
auth_info(data) ==
    [clientToken |-> data.clientToken, serverToken |-> data.serverToken,
     clientId |-> "client_id", device |-> "device", wid |-> ""]

\* wait_for_authentication, lines 857-859: the temporary connected callback
\* sets the event when its argument has a true "authenticated" entry
on_auth_update(state) == DictGet(state, "authenticated", FALSE)

\* WAClient.wait_for_authentication, lines 847-864: returns True when
\* already authenticated, else puts on_auth_update in place of the connected
\* callback and waits for the event
Real_wait_for_authentication ==
    /\ r_upc = "idle"
    /\ IF r_authenticated THEN
           /\ r_ev' = Ev("wait_for_authentication", NoFrame,
                         RRes(TRUE, "none", "none", "True", FALSE), <<>>, <<>>)
           /\ UNCHANGED r_upc
       ELSE
           /\ r_upc' = "wait"
           /\ r_ev' = NoREv
    /\ UNCHANGED <<r_state, r_attempts, r_authenticated, r_client_token, r_server_token,
                   r_ws, r_sock, r_tpc, r_timers, r_tconn, r_keepalive,
                   r_callbacks, r_pending, notReal>>

\* lines 866-876: auth_event.wait(timeout) returns True when the event is
\* set and False when the timeout has elapsed; the connected callback is
\* restored.  pre is whether the client is authenticated at that moment.
Real_wait_return ==
    /\ r_upc \in {"wait", "wait_set"}
    /\ r_upc' = "idle"
    /\ r_ev' = Ev("wait_for_authentication", NoFrame,
                  RRes(r_authenticated, "none", "none",
                       IF r_upc = "wait_set" THEN "True" ELSE "False", FALSE), <<>>, <<>>)
    /\ UNCHANGED <<r_state, r_attempts, r_authenticated, r_client_token, r_server_token,
                   r_ws, r_sock, r_tpc, r_timers, r_tconn, r_keepalive,
                   r_callbacks, r_pending, notReal>>

\* the caller registers a pending request: pending_requests[tag] =
\* {"callback": ...} (the dict of line 181; nothing in the class adds to it)
Real_register_request(tag) ==
    /\ r_upc = "idle"
    /\ tag \notin r_pending
    /\ r_pending' = r_pending \cup {tag}
    /\ r_ev' = NoREv
    /\ UNCHANGED <<r_state, r_attempts, r_authenticated, r_client_token, r_server_token,
                   r_ws, r_sock, r_tpc, r_upc, r_timers, r_tconn, r_keepalive,
                   r_callbacks, notReal>>

\* _process_message, lines 678-681: the frame reaches _process_message and
\* its tag is in pending_requests
is_pending(m) == m.comma /\ ~StartsWith(m.head, T_pong) /\ m.head \in r_pending

\* WAClient._on_message (lines 534-570) and _process_message (669-735):
\* the branch a frame takes
real_message_branch(m) ==
    IF ~m.comma THEN "malformed"
    ELSE IF StartsWith(m.head, T_pong) THEN "pong"
    ELSE IF m.head = T_s1 /\ m.data.json = "dict" /\ m.data.status = 401 THEN
        IF m.data.ref \notin {NoVal, ""} THEN "qr" ELSE "none"
    ELSE IF m.head = T_s1 /\ m.data.json = "dict" /\ m.data.status = 200 THEN "success"
    ELSE IF StartsWith(m.head, <<115>>) \/ StartsWith(m.head, <<97>>) THEN "message"
    ELSE "none"

Real_on_message(id, m) ==
    /\ r_tpc[id] = "run"
    /\ r_sock[id] = "open"
    /\ IF real_message_branch(m) = "success"
       THEN /\ r_client_token' = m.data.clientToken
            /\ r_server_token' = m.data.serverToken
            /\ r_authenticated' = TRUE
       ELSE UNCHANGED <<r_client_token, r_server_token, r_authenticated>>
    /\ r_pending' = IF is_pending(m) THEN r_pending \ {m.head} ELSE r_pending
    /\ r_ev' = Ev("_on_message", m,
                  [NoRRes EXCEPT !.pre = is_pending(m),
                                 !.waiter = IF is_pending(m)
                                            THEN [tag |-> m.head, data |-> m.data]
                                            ELSE NoWaiter],
                  <<>>,
                  (IF is_pending(m) THEN <<"request">> ELSE <<>>) \o
                  (IF real_message_branch(m) = "qr"
                      THEN Cb(<<"qr_code", "connection_update">>)
                   ELSE IF real_message_branch(m) = "success"
                      THEN (IF r_upc \in {"wait", "wait_set"} THEN <<"on_auth_update">>
                            ELSE Cb(<<"connected">>)) \o Cb(<<"connection_update">>)
                   ELSE IF real_message_branch(m) = "message" THEN Cb(<<"message">>)
                   ELSE <<>>))
    /\ r_upc' = IF /\ r_upc = "wait"
                    /\ real_message_branch(m) = "success"
                    /\ on_auth_update(auth_info(m.data))
                 THEN "wait_set" ELSE r_upc
    /\ UNCHANGED <<r_state, r_attempts, r_ws, r_sock, r_tpc, r_timers, r_tconn,
                   r_keepalive, r_callbacks, notReal>>

\* WAClient._on_close, lines 596-617: a reconnect is wanted when the state
\* was Connected and the close code is not 1000
should_reconnect(was_connected, code) == was_connected /\ code # 1000

\* lines 588-636 with the close code the library passes.  A socket closed
\* by this client reports 1000 or no code.
Real_on_close(id, code) ==
    /\ r_tpc[id] = "run"
    /\ r_sock[id] \in {"disconnect", "keepalive", "lost"}
    /\ r_sock[id] \in {"disconnect", "keepalive"} => code \in {NoCode, 1000}
    /\ r_state' = "disconnected"
    /\ IF should_reconnect(r_state = "connected", code)
       THEN /\ r_tpc' = [r_tpc EXCEPT ![id] = "reconnect"]
            /\ r_ev' = NoREv
            /\ UNCHANGED r_sock
       ELSE /\ r_tpc' = [r_tpc EXCEPT ![id] = "none"]
            /\ r_sock' = [r_sock EXCEPT ![id] = "closed"]
            /\ r_ev' = Ev("_on_close", NoFrame,
                          RRes(r_state = "connected", r_sock[id], "none", "None", FALSE),
                          <<>>, Cb(<<"disconnected", "connection_update">>))
    /\ UNCHANGED <<r_attempts, r_authenticated, r_client_token, r_server_token,
                   r_ws, r_upc, r_timers, r_tconn, r_keepalive, r_callbacks, r_pending, notReal>>

\* lines 639-640: the reconnect() call of _on_close
Real_on_close_reconnect(id) ==
    /\ r_tpc[id] = "reconnect"
    /\ r_timers < MaxTimers
    /\ r_tpc' = [r_tpc EXCEPT ![id] = "none"]
    /\ r_sock' = [r_sock EXCEPT ![id] = "closed"]
    /\ Reconnect("_on_close", TRUE, r_sock[id])
    /\ UNCHANGED <<r_authenticated, r_client_token, r_server_token,
                   r_ws, r_upc, r_tconn, r_keepalive, r_callbacks, r_pending, notReal>>

(***************************************************************************)
(* Reconnection back-off: ReconnectionManager of                           *)
(* whatsapp_web_py_improved/utils.py and wawspy/utils.py, and              *)
(* ReconnectionStrategy of whatsapp_enhancements.py, with the parameters   *)
(* the package gives them.  Delays are exact rationals: a base delay is    *)
(* kept in units of 1/Scale ms, a returned delay in units of 1/(10*Scale)  *)
(* ms.  random.uniform is a choice among the ends and the middle of its    *)
(* interval.                                                               *)
(***************************************************************************)
RECONNECT_DELAY_MS == 3000
MAX_RECONNECT_DELAY_MS == 60000
\* RECONNECT_DECAY_FACTOR = 1.5 = DecayNum / DecayDen
DecayNum == 3
DecayDen == 2
\* RECONNECT_RANDOM_FACTOR = 0.2, in tenths
RandomTenths == 2

Managers == {"whatsapp_web_py_improved", "wawspy", "whatsapp_enhancements"}

RECURSIVE Pow(_, _)
Pow(b, k) == IF k = 0 THEN 1 ELSE b * Pow(b, k - 1)

Scale == Pow(DecayDen, MAX_RECONNECT_ATTEMPTS - 1)

\* the base delay without the min(..., max_delay_ms): what the clamp prevents
base_delay_ms_unclamped(n) ==
    RECONNECT_DELAY_MS * Pow(DecayNum, n - 1) * (Scale \div Pow(DecayDen, n - 1))

\* min(initial_delay_ms * decay_factor ** (attempt_count - 1), max_delay_ms)
\* for attempt_count = n, in units of 1/Scale ms
base_delay_ms(n) ==
    IF RECONNECT_DELAY_MS * Pow(DecayNum, n - 1) <= MAX_RECONNECT_DELAY_MS * Pow(DecayDen, n - 1)
    THEN RECONNECT_DELAY_MS * Pow(DecayNum, n - 1) * (Scale \div Pow(DecayDen, n - 1))
    ELSE MAX_RECONNECT_DELAY_MS * Scale

\* the jitter factors, in tenths: 1 + uniform(-random_factor, random_factor)
\* in the two managers, uniform(0.8, 1.2) in ReconnectionStrategy
Jitters(impl) ==
    IF impl = "whatsapp_enhancements" THEN {8, 10, 12}
    ELSE {10 - RandomTenths, 10, 10 + RandomTenths}

\* what a next-delay call returned: valid is false for -1
Delay(base, delay) == [valid |-> TRUE, base |-> base, delay |-> delay]
NoRetry == [valid |-> FALSE, base |-> 0, delay |-> 0]

\* before a manager is constructed
InitBackoff ==
    /\ b_impl = "none"
    /\ b_attempt_count = 0
    /\ b_prev = NoRetry
    /\ b_last = NoRetry
    /\ b_calls = 0

\* a can_retry that still allows a retry when the count is at max_attempts
can_retry_inclusive == b_attempt_count <= MAX_RECONNECT_ATTEMPTS

\* can_retry()
can_retry == b_attempt_count < MAX_RECONNECT_ATTEMPTS

\* __init__ of one of the three classes
Backoff_init(impl) ==
    /\ b_impl = "none"
    /\ b_impl' = impl
    /\ b_attempt_count' = 0
    /\ UNCHANGED <<b_calls, b_prev, b_last, notBackoff>>

\* get_next_delay_seconds / next_delay, with the jitter factor drawn
get_next_delay_seconds(jitter) ==
    /\ b_impl \in Managers
    /\ jitter \in Jitters(b_impl)
    /\ b_prev' = IF b_calls = 0 THEN NoRetry ELSE b_last
    /\ b_calls' = Min(b_calls + 1, 2)
    /\ IF b_attempt_count >= MAX_RECONNECT_ATTEMPTS THEN
           /\ b_last' = NoRetry
           /\ UNCHANGED b_attempt_count
       ELSE
           /\ b_attempt_count' = b_attempt_count + 1
           /\ b_last' = Delay(base_delay_ms(b_attempt_count + 1),
                              base_delay_ms(b_attempt_count + 1) * jitter)
    /\ UNCHANGED <<b_impl, notBackoff>>

\* reset(): the count starts again, and so does the run of successive calls
Backoff_reset ==
    /\ b_impl \in Managers
    /\ b_attempt_count' = 0
    /\ b_calls' = 0
    /\ b_prev' = NoRetry
    /\ b_last' = NoRetry
    /\ UNCHANGED <<b_impl, notBackoff>>

(***************************************************************************)
(* Encryption: SignalProtocol of whatsapp/crypto/signal.py and             *)
(* WAEncryption of wawspy/encryption.py.  Bytes are numbers 0..255, byte   *)
(* strings are sequences.  The primitives of the cryptography package are  *)
(* modelled by their contracts over byte strings, with arithmetic in place *)
(* of AES and SHA-256: a keyed, invertible, length-preserving cipher and a *)
(* keyed tag that changes when any one byte of its input changes.  The     *)
(* framing around them (nonce, padding, slicing, key lookup, JSON) is the  *)
(* code of this repository and is modelled as written.                     *)
(***************************************************************************)
Max(a, b) == IF a > b THEN a ELSE b

RECURSIVE SumBytes(_)
SumBytes(s) == IF s = <<>> THEN 0 ELSE Head(s) + SumBytes(Tail(s))

\* Python's s[a:b] for a byte string, negative indices counted from the end
PyIndex(s, i) == IF i < 0 THEN Max(Len(s) + i, 0) ELSE Min(i, Len(s))
PySlice(s, a, b) == Slice(s, PyIndex(s, a) + 1, PyIndex(s, b))

\* a result of a library call that may raise
Okay(v) == [ok |-> TRUE, v |-> v]
Raised == [ok |-> FALSE, v |-> <<>>]

\* HKDF(SHA256, length=32, info=b"WhatsApp Message Key").derive(root_key):
\* a key is one number here
HKDF_derive(root_key) == (root_key * 37 + 11) % 256

\* AESGCM(key).encrypt(nonce, data, None): ciphertext of the length of the
\* data followed by a 16-byte tag
GcmStream(key, nonce, i) == key + nonce[((i - 1) % Len(nonce)) + 1] + i
GcmTag(key, nonce, ct) ==
    [j \in 1..16 |-> (key + j + SumBytes(nonce) + SumBytes(ct) + Len(ct)) % 256]
AESGCM_encrypt(key, nonce, data) ==
    Bind([i \in 1..Len(data) |-> (data[i] + GcmStream(key, nonce, i)) % 256],
         LAMBDA ct : ct \o GcmTag(key, nonce, ct))

\* AESGCM(key).decrypt(nonce, data, None): InvalidTag unless the tag fits
AESGCM_decrypt(key, nonce, data) ==
    IF Len(data) < 16 \/ Len(nonce) # 12 THEN Raised
    ELSE Bind(PySlice(data, 0, Len(data) - 16), LAMBDA ct :
         IF PySlice(data, Len(data) - 16, Len(data)) # GcmTag(key, nonce, ct) THEN Raised
         ELSE Okay([i \in 1..Len(ct) |-> (ct[i] + 256 - (GcmStream(key, nonce, i) % 256)) % 256]))

\* message data: the dict {} or {"text": t}, t a string of ASCII characters
NoText == [has_text |-> FALSE, text |-> <<>>]
Text(t) == [has_text |-> TRUE, text |-> t]
Texts == {<<>>, <<104, 34>>, <<92>>}
MessageDatas == {NoText} \cup {Text(t) : t \in Texts}

\* json.dumps(message_data).encode('utf-8'): {} or {"text": "..."} with
\* the quotation mark and the reverse solidus escaped
RECURSIVE json_escape(_)
json_escape(t) ==
    IF t = <<>> THEN <<>>
    ELSE (IF Head(t) \in {34, 92} THEN <<92, Head(t)>> ELSE <<Head(t)>>) \o json_escape(Tail(t))

JsonOpen == <<123, 34, 116, 101, 120, 116, 34, 58, 32, 34>>
JsonClose == <<34, 125>>

json_dumps(md) ==
    IF ~md.has_text THEN <<123, 125>>
    ELSE JsonOpen \o json_escape(md.text) \o JsonClose

\* json.loads(plaintext.decode('utf-8')) on that grammar; raises otherwise
RECURSIVE json_unescape(_)
json_unescape(b) ==
    IF b = <<>> THEN Okay(<<>>)
    ELSE IF Head(b) = 34 \/ Head(b) > 127 THEN Raised
    ELSE IF Head(b) = 92 THEN
        IF Len(b) < 2 \/ b[2] \notin {34, 92} THEN Raised
        ELSE Bind(json_unescape(Tail(Tail(b))), LAMBDA r :
                  IF r.ok THEN Okay(<<b[2]>> \o r.v) ELSE Raised)
    ELSE Bind(json_unescape(Tail(b)), LAMBDA r :
              IF r.ok THEN Okay(<<Head(b)>> \o r.v) ELSE Raised)

json_loads(b) ==
    IF b = <<123, 125>> THEN [ok |-> TRUE, v |-> NoText]
    ELSE IF /\ Len(b) >= Len(JsonOpen) + Len(JsonClose)
            /\ PySlice(b, 0, Len(JsonOpen)) = JsonOpen
            /\ PySlice(b, Len(b) - 2, Len(b)) = JsonClose
         THEN Bind(json_unescape(PySlice(b, Len(JsonOpen), Len(b) - 2)), LAMBDA r :
                   IF r.ok THEN [ok |-> TRUE, v |-> Text(r.v)] ELSE [ok |-> FALSE, v |-> NoText])
    ELSE [ok |-> FALSE, v |-> NoText]

\* a blob as it arrives: the bytes as returned by encrypt_message, or with
\* one byte changed: the first or the last byte of its header (nonce or
\* IV), of its ciphertext, or of its trailer (tag or MAC)
Deltas == {1}
Tamper(b, i, d) == [b EXCEPT ![i] = (b[i] + d) % 256]
TamperPositions(b, header, trailer) ==
    {1, header, header + 1, Len(b) - trailer, Len(b) - trailer + 1, Len(b)} \cap (1..Len(b))
Received(b, header, trailer) ==
    {b} \cup {Tamper(b, i, d) : i \in TamperPositions(b, header, trailer), d \in Deltas}

\* ---- SignalProtocol ----------------------------------------------------
Peers == {"a@c.us", "b@c.us"}
\* root keys as numbers; 0 stands for a session dict without "rootKey"
RootKeys == {1, 2}
\* os.urandom(12)
Nonces == {[i \in 1..12 |-> 0], [i \in 1..12 |-> 20 * i]}

NoSession == [present |-> FALSE, rootKey |-> 0]
Session(root_key) == [present |-> TRUE, rootKey |-> root_key]

\* sessions/<peer>.json: absent, not JSON, or a JSON object
NoFile == [exists |-> FALSE, json |-> FALSE, rootKey |-> 0]
BadFile == [exists |-> TRUE, json |-> FALSE, rootKey |-> 0]
SessionFile(root_key) == [exists |-> TRUE, json |-> TRUE, rootKey |-> root_key]
InitialFiles == {NoFile, BadFile, SessionFile(0), SessionFile(1)}

NoBlob == [peer |-> "", md |-> NoText, bytes |-> <<>>, session |-> NoSession]
SEv(op, peer, content, raised, out) ==
    [op |-> op, peer |-> peer, content |-> content, raised |-> raised, out |-> out]
NoSEv == SEv("none", "", <<>>, "none", NoText)

Classes == {"SignalProtocol", "WAEncryption"}

\* before an object of either class is constructed
InitSignal ==
    /\ c_class = "none"
    /\ sp_sessions = [p \in Peers |-> NoSession]
    /\ sp_files = [p \in Peers |-> NoFile]
    /\ sp_blob = NoBlob
    /\ sp_ev = NoSEv

\* a _load_session that starts a session of its own when there is no file:
\* the implicit handshake the code does not make
load_session_implicit(sessions, peer) ==
    IF ~sp_files[peer].exists \/ ~sp_files[peer].json
    THEN [loaded |-> TRUE, sessions |-> [sessions EXCEPT ![peer] = Session(1)]]
    ELSE [loaded |-> TRUE,
          sessions |-> [sessions EXCEPT ![peer] = Session(sp_files[peer].rootKey)]]

\* _load_session: the sessions after the call, and what it returned
load_session(sessions, peer) ==
    IF ~sp_files[peer].exists THEN [loaded |-> FALSE, sessions |-> sessions]
    ELSE IF ~sp_files[peer].json THEN [loaded |-> FALSE, sessions |-> sessions]
    ELSE [loaded |-> TRUE,
          sessions |-> [sessions EXCEPT ![peer] = Session(sp_files[peer].rootKey)]]

\* _derive_key: raises on a session without a root key
derive_key(session_data) ==
    IF session_data.rootKey = 0 THEN Raised ELSE Okay(<<HKDF_derive(session_data.rootKey)>>)

\* the sessions encrypt_message and decrypt_message work with: the cached
\* ones, or those after loading the peer's session
ensure_session(peer) ==
    IF sp_sessions[peer].present THEN [loaded |-> TRUE, sessions |-> sp_sessions]
    ELSE load_session(sp_sessions, peer)

\* a peer's prekey bundle as the dict establish_session receives: prekey is
\* the one-time prekey's bytes, NoPrekey when the bundle carries none (the
\* "prekey" entry absent, None or empty)
NoPrekey == <<>>
Bundle(prekey) == [prekey |-> prekey]
Bundles == {Bundle(<<7>>), Bundle(NoPrekey)}

\* PreKeyBundle.from_json(data): data["prekey"] is decoded and loaded as an
\* X25519 public key unconditionally, which raises without one
PreKeyBundle_from_json(data) == IF data.prekey = NoPrekey THEN Raised ELSE Okay(data)

\* establish_session(recipient_id, prekey_bundle); root_key is what the
\* agreement and the key derivation of SessionBuilder.process give
Signal_establish_session(peer, root_key, prekey_bundle) ==
    /\ c_class = "SignalProtocol"
    /\ IF PreKeyBundle_from_json(prekey_bundle).ok THEN
           /\ sp_sessions' = [sp_sessions EXCEPT ![peer] = Session(root_key)]
           /\ sp_files' = [sp_files EXCEPT ![peer] = SessionFile(root_key)]
           /\ sp_ev' = SEv("establish_session", peer, prekey_bundle.prekey, "none", NoText)
       ELSE
           /\ sp_ev' = SEv("establish_session", peer, prekey_bundle.prekey,
                           "WAEncryptionError", NoText)
           /\ UNCHANGED <<sp_sessions, sp_files>>
    /\ UNCHANGED <<c_class, sp_blob, waVars, notCrypto>>

\* SignalProtocol(storage_path): the first object finds in the storage path
\* the files an earlier process left, a later one the files as they are
Signal_init(files) ==
    /\ c_class \in {"none", "SignalProtocol"}
    /\ c_class' = "SignalProtocol"
    /\ sp_files' = IF c_class = "none" THEN files ELSE sp_files
    /\ sp_sessions' = [p \in Peers |-> NoSession]
    /\ sp_ev' = SEv("__init__", "", <<>>, "none", NoText)
    /\ UNCHANGED <<sp_blob, waVars, notCrypto>>

\* encrypt_message(recipient_id, message_data), nonce what os.urandom gives
Signal_encrypt_message(peer, md, nonce) ==
    /\ c_class = "SignalProtocol"
    /\ With(ensure_session(peer), LAMBDA ls :
         IF ~ls.loaded THEN
             /\ sp_ev' = SEv("encrypt_message", peer, <<>>, "WAEncryptionError", NoText)
             /\ sp_sessions' = ls.sessions
             /\ UNCHANGED sp_blob
         ELSE With(derive_key(ls.sessions[peer]), LAMBDA key :
             IF ~key.ok THEN
                 /\ sp_ev' = SEv("encrypt_message", peer, <<>>, "WAEncryptionError", NoText)
                 /\ sp_sessions' = ls.sessions
                 /\ UNCHANGED sp_blob
             ELSE
                 /\ sp_blob' = [peer |-> peer, md |-> md,
                                bytes |-> nonce \o AESGCM_encrypt(key.v[1], nonce, json_dumps(md)),
                                session |-> ls.sessions[peer]]
                 /\ sp_ev' = SEv("encrypt_message", peer, sp_blob'.bytes, "none", NoText)
                 /\ sp_sessions' = ls.sessions))
    /\ UNCHANGED <<c_class, sp_files, waVars, notCrypto>>

\* decrypt_message splitting the blob after 16 bytes, where encrypt_message
\* put a nonce of 12
decrypt_content_split16(session_data, content) ==
    Bind(derive_key(session_data), LAMBDA key :
      IF ~key.ok THEN [ok |-> FALSE, v |-> NoText]
      ELSE Bind(AESGCM_decrypt(key.v[1], PySlice(content, 0, 16), PySlice(content, 16, Len(content))),
                LAMBDA plain : IF ~plain.ok THEN [ok |-> FALSE, v |-> NoText]
                               ELSE json_loads(plain.v)))

\* the body of decrypt_message after the session is there: what it returns
decrypt_content(session_data, content) ==
    Bind(derive_key(session_data), LAMBDA key :
      IF ~key.ok THEN [ok |-> FALSE, v |-> NoText]
      ELSE Bind(AESGCM_decrypt(key.v[1], PySlice(content, 0, 12), PySlice(content, 12, Len(content))),
                LAMBDA plain : IF ~plain.ok THEN [ok |-> FALSE, v |-> NoText]
                               ELSE json_loads(plain.v)))

\* decrypt_message({'sender': sender, 'content': content}); "" is a missing
\* sender, <<>> a missing content
Signal_decrypt_message(sender, content) ==
    /\ c_class = "SignalProtocol"
    /\ IF sender = "" \/ content = <<>> THEN
           /\ sp_ev' = SEv("decrypt_message", sender, content, "WAEncryptionError", NoText)
           /\ UNCHANGED sp_sessions
       ELSE With(ensure_session(sender), LAMBDA ls :
         /\ sp_sessions' = ls.sessions
         /\ IF ~ls.loaded THEN
                sp_ev' = SEv("decrypt_message", sender, content, "WAEncryptionError", NoText)
            ELSE With(decrypt_content(ls.sessions[sender], content), LAMBDA r :
                sp_ev' = SEv("decrypt_message", sender, content,
                             IF r.ok THEN "none" ELSE "WAEncryptionError", r.v)))
    /\ UNCHANGED <<c_class, sp_files, sp_blob, waVars, notCrypto>>

\* ---- WAEncryption --------------------------------------------------------
\* padding.PKCS7(128): pad to a multiple of 16 with n bytes of value n
PadLen(data) == 16 - (Len(data) % 16)
pkcs7_pad(data) == data \o [i \in 1..PadLen(data) |-> PadLen(data)]
pkcs7_unpad(data) ==
    IF Len(data) = 0 \/ Len(data) % 16 # 0 THEN Raised
    ELSE IF data[Len(data)] \notin 1..16 THEN Raised
    ELSE IF \E i \in (Len(data) - data[Len(data)] + 1)..Len(data) : data[i] # data[Len(data)]
         THEN Raised
    ELSE Okay(PySlice(data, 0, Len(data) - data[Len(data)]))

\* Cipher(AES(key), CBC(iv)): each block is chained to the one before it
RECURSIVE cbc_encrypt(_, _, _)
cbc_encrypt(key, iv, data) ==
    IF data = <<>> THEN <<>>
    ELSE Bind([i \in 1..16 |-> (data[i] + key + iv[i]) % 256], LAMBDA block :
              block \o cbc_encrypt(key, block, PySlice(data, 16, Len(data))))
cbc_decrypt(key, iv, data) ==
    IF Len(data) % 16 # 0 THEN Raised
    ELSE Okay([i \in 1..Len(data) |->
                 (data[i] + 512 - key - (IF i <= 16 THEN iv[i] ELSE data[i - 16])) % 256])

\* hmac.new(mac_key, digestmod=sha256) over data: 32 bytes
hmac_digest(mac_key, data) ==
    [j \in 1..32 |-> (mac_key + j + SumBytes(data) + Len(data)) % 256]

\* os.urandom(16)
IVs == {[i \in 1..16 |-> 0], [i \in 1..16 |-> 255 - i]}
Messages == {<<>>, <<0>>, <<255, 16>>, [i \in 1..16 |-> 16]}
\* the (enc_key, mac_key) pairs derive_session_keys can give; 0 is None
DerivedKeys == {<<5, 9>>, <<200, 77>>}

NoWBlob == [message |-> <<>>, bytes |-> <<>>, keys |-> <<0, 0>>]
WEv(op, message, content, raised, out) ==
    [op |-> op, message |-> message, content |-> content, raised |-> raised, out |-> out]
NoWEv == WEv("none", <<>>, <<>>, "none", <<>>)

InitWA ==
    /\ wa_keys = <<0, 0>>
    /\ wa_blob = NoWBlob
    /\ wa_ev = NoWEv

\* WAEncryption()
WA_init ==
    /\ c_class = "none"
    /\ c_class' = "WAEncryption"
    /\ wa_keys' = <<0, 0>>
    /\ UNCHANGED <<wa_blob, wa_ev, spVars, notCrypto>>

\* generate_keys, compute_shared_key, derive_session_keys
WA_derive_session_keys(keys) ==
    /\ c_class = "WAEncryption"
    /\ wa_keys' = keys
    /\ wa_ev' = WEv("derive_session_keys", <<>>, <<>>, "none", <<>>)
    /\ UNCHANGED <<c_class, wa_blob, spVars, notCrypto>>

\* encrypt_message(message), iv what os.urandom gives
WA_encrypt_message(message, iv) ==
    /\ c_class = "WAEncryption"
    /\ IF wa_keys[1] = 0 \/ wa_keys[2] = 0 THEN
           /\ wa_ev' = WEv("encrypt_message", message, <<>>, "ValueError", <<>>)
           /\ UNCHANGED wa_blob
       ELSE With(cbc_encrypt(wa_keys[1], iv, pkcs7_pad(message)), LAMBDA ciphertext :
           /\ wa_blob' = [message |-> message,
                          bytes |-> iv \o ciphertext \o hmac_digest(wa_keys[2], iv \o ciphertext),
                          keys |-> wa_keys]
           /\ wa_ev' = WEv("encrypt_message", message, wa_blob'.bytes, "none", <<>>))
    /\ UNCHANGED <<c_class, wa_keys, spVars, notCrypto>>

\* a decrypt_message that does not compare the MAC before decrypting
wa_decrypt_unverified(keys, encrypted_message) ==
    Bind(PySlice(encrypted_message, 0, 16), LAMBDA iv :
    Bind(PySlice(encrypted_message, 16, Len(encrypted_message) - 32), LAMBDA ciphertext :
      IF Len(iv) # 16 THEN Raised
      ELSE Bind(cbc_decrypt(keys[1], iv, ciphertext), LAMBDA padded :
                IF ~padded.ok THEN Raised ELSE pkcs7_unpad(padded.v))))

\* what decrypt_message returns with the session keys there
wa_decrypt(keys, encrypted_message) ==
    Bind(PySlice(encrypted_message, 0, 16), LAMBDA iv :
    Bind(PySlice(encrypted_message, 16, Len(encrypted_message) - 32), LAMBDA ciphertext :
      IF hmac_digest(keys[2], iv \o ciphertext)
            # PySlice(encrypted_message, Len(encrypted_message) - 32, Len(encrypted_message))
      THEN Raised
      ELSE IF Len(iv) # 16 THEN Raised
      ELSE Bind(cbc_decrypt(keys[1], iv, ciphertext), LAMBDA padded :
                IF ~padded.ok THEN Raised ELSE pkcs7_unpad(padded.v))))

\* decrypt_message(encrypted_message)
WA_decrypt_message(encrypted_message) ==
    /\ c_class = "WAEncryption"
    /\ IF wa_keys[1] = 0 \/ wa_keys[2] = 0 THEN
           wa_ev' = WEv("decrypt_message", <<>>, encrypted_message, "ValueError", <<>>)
       ELSE With(wa_decrypt(wa_keys, encrypted_message), LAMBDA r :
           wa_ev' = WEv("decrypt_message", <<>>, encrypted_message,
                        IF r.ok THEN "none" ELSE "ValueError", r.v))
    /\ UNCHANGED <<c_class, wa_keys, wa_blob, spVars, notCrypto>>

(***************************************************************************)
(* Message tags: WAClient._generate_message_tag of wawspy/real_client.py,  *)
(* called by threads that share the client, and generate_message_tag of    *)
(* wawspy/utils.py.  A tag is the time it was formatted at and its number  *)
(* (the counter, or the random suffix).                                    *)
(***************************************************************************)
MaxCallers == 2          \* threads calling the generators
MaxCalls == 3            \* tags generated in all
MaxClock == 1            \* readings the clock goes through after the first
Callers == 1..MaxCallers
\* random.randint(10000, 99999): the ends of the range
Suffixes == {10000, 99999}

Tag(gen, time, n) == [gen |-> gen, time |-> time, n |-> n]

InitTag ==
    /\ message_tag_counter = 0
    /\ tg_clock = 0
    /\ tg_pc = [t \in Callers |-> [pc |-> "idle", tmp |-> 0]]
    /\ tg_tags = <<>>

\* tags returned or being made
TagsBegun == Len(tg_tags) + Cardinality({t \in Callers : tg_pc[t].pc # "idle"})

\* time.time() moves on
Tag_tick ==
    /\ tg_clock < MaxClock
    /\ tg_clock' = tg_clock + 1
    /\ UNCHANGED <<message_tag_counter, tg_pc, tg_tags, notTag>>

\* self.message_tag_counter += 1, first half: the attribute is read
Tag_counter_load(t) ==
    /\ tg_pc[t].pc = "idle"
    /\ TagsBegun < MaxCalls
    /\ tg_pc' = [tg_pc EXCEPT ![t] = [pc |-> "store", tmp |-> message_tag_counter]]
    /\ UNCHANGED <<message_tag_counter, tg_clock, tg_tags, notTag>>

\* self.message_tag_counter += 1, second half: the sum is stored
Tag_counter_store(t) ==
    /\ tg_pc[t].pc = "store"
    /\ message_tag_counter' = tg_pc[t].tmp + 1
    /\ tg_pc' = [tg_pc EXCEPT ![t].pc = "format"]
    /\ UNCHANGED <<tg_clock, tg_tags, notTag>>

\* return f"{prefix}{int(time.time() * 1000)}-{self.message_tag_counter}"
Tag_format(t) ==
    /\ tg_pc[t].pc = "format"
    /\ tg_tags' = Append(tg_tags, Tag("_generate_message_tag", tg_clock, message_tag_counter))
    /\ tg_pc' = [tg_pc EXCEPT ![t] = [pc |-> "idle", tmp |-> 0]]
    /\ UNCHANGED <<message_tag_counter, tg_clock, notTag>>

\* utils.generate_message_tag(): str(time.time()) without its point, then
\* the random suffix
Tag_generate_message_tag(suffix) ==
    /\ TagsBegun < MaxCalls
    /\ tg_tags' = Append(tg_tags, Tag("generate_message_tag", tg_clock, suffix))
    /\ UNCHANGED <<message_tag_counter, tg_clock, tg_pc, notTag>>

(***************************************************************************)
(* Socket writes of wawspy/connection.py: the threads that call            *)
(* self.ws.send, which are the callers of send_message and the             *)
(* keepalive_worker threads, and self.lock, the RLock that __init__        *)
(* makes.  A call of ws.send takes time: a thread is inside it from one    *)
(* step to a later one.                                                     *)
(***************************************************************************)
MaxWriters == 3          \* threads that send: callers and keepalive workers
Writers == 1..MaxWriters
NoWriter == 0

InitWrite ==
    /\ w_connected = FALSE
    /\ w_ws = FALSE
    /\ w_lock = NoWriter
    /\ w_pc = [t \in Writers |-> "idle"]

\* connect(): the transport is open, connected is set by _on_open, and
\* _start_keepalive starts a keepalive_worker thread
Write_connect(t) ==
    /\ ~w_connected
    /\ w_pc[t] = "idle"
    /\ w_connected' = TRUE
    /\ w_ws' = TRUE
    /\ w_pc' = [w_pc EXCEPT ![t] = "k_loop"]
    /\ UNCHANGED <<w_lock, notWrite>>

\* disconnect(), or the transport closing: ws is None and connected False
Write_disconnect ==
    /\ w_connected
    /\ w_connected' = FALSE
    /\ w_ws' = FALSE
    /\ UNCHANGED <<w_lock, w_pc, notWrite>>

\* send_message up to the call of self.ws.send: raises when not connected
Write_send_message(t) ==
    /\ w_pc[t] = "idle"
    /\ w_pc' = [w_pc EXCEPT ![t] = IF ~w_connected \/ ~w_ws THEN "idle" ELSE "in_send"]
    /\ UNCHANGED <<w_connected, w_ws, w_lock, notWrite>>

\* self.ws.send(message) returns or raises, and so does send_message
Write_send_return(t) ==
    /\ w_pc[t] = "in_send"
    /\ w_pc' = [w_pc EXCEPT ![t] = "idle"]
    /\ UNCHANGED <<w_connected, w_ws, w_lock, notWrite>>

\* keepalive_worker: the loop test, then the call of self.ws.send("?,,")
Write_keepalive_loop(t) ==
    /\ w_pc[t] = "k_loop"
    /\ w_pc' = [w_pc EXCEPT ![t] = IF w_connected /\ w_ws THEN "k_in_send" ELSE "idle"]
    /\ UNCHANGED <<w_connected, w_ws, w_lock, notWrite>>

\* keepalive_worker: ws.send returns and the thread sleeps, or it raises and
\* the thread ends
Write_keepalive_sent(t, raised) ==
    /\ w_pc[t] = "k_in_send"
    /\ w_pc' = [w_pc EXCEPT ![t] = IF raised THEN "idle" ELSE "k_sleep"]
    /\ UNCHANGED <<w_connected, w_ws, w_lock, notWrite>>

\* keepalive_worker: time.sleep(self.keepalive_interval) is over
Write_keepalive_wake(t) ==
    /\ w_pc[t] = "k_sleep"
    /\ w_pc' = [w_pc EXCEPT ![t] = "k_loop"]
    /\ UNCHANGED <<w_connected, w_ws, w_lock, notWrite>>

\* the threads inside self.ws.send
InSend == {t \in Writers : w_pc[t] \in {"in_send", "k_in_send"}}

(***************************************************************************)
(* wawspy/auth.py: WAAuthentication, the pairing-code challenge.  The      *)
(* reference is "pairing_ref_" + str(int(time.time())), modelled by the    *)
(* clock reading; the simulated code is always "123456".                   *)
(***************************************************************************)
MaxAuthClock == 2
MaxVerified == 2

\* None, and "pairing_ref_" + str(t)
NoRef == <<>>
Ref(t) == <<t>>
\* phone numbers: one that matches ^\+[1-9]\d{1,14}$ and one that does not
PhoneNumbers == {"+40123456789", "0123"}
\* codes a user may type: the simulated one, another of six digits, a short one
Codes == {"123456", "654321", "12"}
\* re.match(r'^\d{6}$', code)
six_digits(code) == code \in {"123456", "654321"}

AEv(op, arg, result) == [op |-> op, arg |-> arg, result |-> result]

InitAuth ==
    /\ pairing_ref = NoRef
    /\ pairing_code = "None"
    /\ a_authenticated = FALSE
    /\ a_auth_info = NoRef
    /\ a_clock = 0
    /\ a_verified = 0
    /\ a_ev = AEv("none", "", "none")

\* time passes
Auth_tick ==
    /\ a_clock < MaxAuthClock
    /\ a_clock' = a_clock + 1
    /\ a_ev' = AEv("none", "", "none")
    /\ UNCHANGED <<pairing_ref, pairing_code, a_authenticated, a_auth_info, a_verified, notAuth>>

\* request_pairing_code(phone_number): a new challenge
Auth_request_pairing_code(phone_number) ==
    IF phone_number # "+40123456789"
    THEN /\ a_ev' = AEv("request_pairing_code", phone_number, "WAAuthenticationError")
         /\ UNCHANGED <<pairing_ref, pairing_code, a_authenticated, a_auth_info, a_clock,
                        a_verified, notAuth>>
    ELSE /\ pairing_ref' = Ref(a_clock)
         /\ pairing_code' = "123456"
         /\ a_verified' = 0
         /\ a_ev' = AEv("request_pairing_code", phone_number, "ref")
         /\ UNCHANGED <<a_authenticated, a_auth_info, a_clock, notAuth>>

\* verify_pairing_code(code)
Auth_verify_pairing_code(code) ==
    IF pairing_ref = NoRef \/ ~six_digits(code)
    THEN /\ a_ev' = AEv("verify_pairing_code", code, "WAAuthenticationError")
         /\ UNCHANGED <<pairing_ref, pairing_code, a_authenticated, a_auth_info, a_clock,
                        a_verified, notAuth>>
    ELSE IF code = pairing_code
    THEN /\ a_verified < MaxVerified
         /\ a_authenticated' = TRUE
         /\ a_auth_info' = pairing_ref
         /\ a_verified' = a_verified + 1
         /\ a_ev' = AEv("verify_pairing_code", code, "True")
         /\ UNCHANGED <<pairing_ref, pairing_code, a_clock, notAuth>>
    ELSE /\ a_ev' = AEv("verify_pairing_code", code, "False")
         /\ UNCHANGED <<pairing_ref, pairing_code, a_authenticated, a_auth_info, a_clock,
                        a_verified, notAuth>>

\* reset()
Auth_reset ==
    /\ pairing_ref' = NoRef
    /\ pairing_code' = "None"
    /\ a_authenticated' = FALSE
    /\ a_auth_info' = NoRef
    /\ a_verified' = 0
    /\ a_ev' = AEv("reset", "", "None")
    /\ UNCHANGED <<a_clock, notAuth>>

(***************************************************************************)
(* Specifications: one per subsystem.                                      *)
(***************************************************************************)
vars == <<codecVars, connVars, impVars, realVars, backoffVars, cryptoVars, tagVars, writeVars, authVars>>

Init ==
    /\ InitCodec
    /\ InitConn
    /\ InitImp
    /\ InitReal
    /\ InitBackoff
    /\ InitSignal
    /\ InitWA
    /\ InitTag
    /\ InitWrite
    /\ InitAuth

NextCodec ==
    \/ \E tag \in TagPool, attrs \in AttrsPool, content \in ContentPool : Create(tag, attrs, content)
    \/ \E child \in ChildPool : AddChild(child)
    \/ Encode
    \/ Decode
    \/ \E data \in RawPool : DecodeRaw(data)

SpecCodec == Init /\ [][NextCodec]_vars

NextConn ==
    \/ Conn_connect
    \/ Conn_connect_return
    \/ Conn_disconnect_close
    \/ Conn_disconnect_ws_none
    \/ Conn_disconnect_connected
    \/ Conn_disconnect_return
    \/ Conn_send_message
    \/ \E id \in SockIds : Conn_on_open(id)
    \/ \E id \in SockIds : Conn_ws_fail(id)
    \/ \E id \in SockIds : Conn_ws_lost(id)
    \/ \E id \in SockIds : Conn_recv(id)
    \/ \E id \in SockIds, m \in FramePool : Conn_on_message(id, m)
    \/ \E id \in SockIds : Conn_on_close(id)
    \/ \E id \in SockIds : Conn_reconnect_connect(id)
    \/ \E id \in SockIds : Conn_reconnect_return(id)
    \/ Conn_keepalive_worker

SpecConn == Init /\ [][NextConn]_vars

NextImp ==
    \/ Imp_register_callback
    \/ \E e \in OnceEvents : Imp_register_once_callback(e)
    \/ Imp_connect
    \/ \E t \in TaskIds, outcome \in {"ok", "ok_lost", "fail"} : Imp_connect_url(t, outcome)
    \/ Imp_disconnect
    \/ Imp_disconnect_listener
    \/ Imp_disconnect_close
    \/ Imp_disconnect_return
    \/ Imp_reconnect
    \/ \E t \in TaskIds : Imp_reconnect_task(t)
    \/ \E t \in TaskIds : Imp_reconnect_wake(t)
    \/ \E t \in TaskIds : Imp_reconnect_closed(t)
    \/ Imp_conn_send_message
    \/ Imp_client_send_message
    \/ Imp_transport_lost
    \/ \E m \in FramePool : Imp_listen(m)
    \/ Imp_listen_closed
    \/ \E timeout \in BOOLEAN : Imp_keepalive(timeout)
    \/ Imp_stop_keepalive

SpecImp == Init /\ [][NextImp]_vars

NextReal ==
    \/ Real_register_callback
    \/ Real_connect
    \/ \E ok \in BOOLEAN : Real_connect_ws(ok)
    \/ Real_timer_connect
    \/ \E ok \in BOOLEAN : Real_timer_connect_ws(ok)
    \/ Real_disconnect
    \/ Real_disconnect_return
    \/ Real_reconnect
    \/ Real_send_json
    \/ Real_send_message
    \/ Real_wait_for_authentication
    \/ Real_wait_return
    \/ \E id \in AppIds, stale \in BOOLEAN : Real_on_open(id, stale)
    \/ \E stale \in BOOLEAN : Real_keepalive(stale)
    \/ \E id \in AppIds : Real_ws_lost(id)
    \/ \E tag \in RequestTags : Real_register_request(tag)
    \/ \E id \in AppIds, m \in RealFramePool : Real_on_message(id, m)
    \/ \E id \in AppIds, code \in CloseCodes : Real_on_close(id, code)
    \/ \E id \in AppIds : Real_on_close_reconnect(id)

SpecReal == Init /\ [][NextReal]_vars

NextBackoff ==
    \/ \E jitter \in 8..12 : get_next_delay_seconds(jitter)
    \/ Backoff_reset
    \/ \E impl \in Managers : Backoff_init(impl)

SpecBackoff == Init /\ [][NextBackoff]_vars

NextCrypto ==
    \/ \E peer \in Peers, root_key \in RootKeys, prekey_bundle \in Bundles :
           Signal_establish_session(peer, root_key, prekey_bundle)
    \/ \E files \in (IF c_class = "none" THEN [Peers -> InitialFiles] ELSE {sp_files}) :
           Signal_init(files)
    \/ WA_init
    \/ \E peer \in Peers, md \in MessageDatas, nonce \in Nonces :
           Signal_encrypt_message(peer, md, nonce)
    \/ \E sender \in Peers \cup {""} :
         \E content \in (IF sender = sp_blob.peer THEN Received(sp_blob.bytes, 12, 16)
                                                  ELSE {sp_blob.bytes}) :
           Signal_decrypt_message(sender, content)
    \/ \E keys \in DerivedKeys : WA_derive_session_keys(keys)
    \/ \E message \in Messages, iv \in IVs : WA_encrypt_message(message, iv)
    \/ \E encrypted_message \in Received(wa_blob.bytes, 16, 32) :
           WA_decrypt_message(encrypted_message)

SpecCrypto == Init /\ [][NextCrypto]_vars

NextTag ==
    \/ Tag_tick
    \/ \E t \in Callers : Tag_counter_load(t)
    \/ \E t \in Callers : Tag_counter_store(t)
    \/ \E t \in Callers : Tag_format(t)
    \/ \E suffix \in Suffixes : Tag_generate_message_tag(suffix)

SpecTag == Init /\ [][NextTag]_vars

NextWrite ==
    \/ \E t \in Writers : Write_connect(t)
    \/ Write_disconnect
    \/ \E t \in Writers : Write_send_message(t)
    \/ \E t \in Writers : Write_send_return(t)
    \/ \E t \in Writers : Write_keepalive_loop(t)
    \/ \E t \in Writers, raised \in BOOLEAN : Write_keepalive_sent(t, raised)
    \/ \E t \in Writers : Write_keepalive_wake(t)

SpecWrite == Init /\ [][NextWrite]_vars

NextAuth ==
    \/ Auth_tick
    \/ \E phone_number \in PhoneNumbers : Auth_request_pairing_code(phone_number)
    \/ \E code \in Codes : Auth_verify_pairing_code(code)
    \/ Auth_reset

SpecAuth == Init /\ [][NextAuth]_vars

(***************************************************************************)
(* Claims.                                                                 *)
(***************************************************************************)

\* C1: for every node built with WANode.create / WANode.add_child, encoding
\* succeeds and decoding the encoded bytes yields a node equal to the
\* original: decode(encode(n)) == n.
C1_RoundTrip ==
    /\ (cpc = "encoded" => ~encErr)
    /\ (cpc = "decoded" => ~decoded.err /\ PyEq(decoded.val, node))

\* C2 (as stated): when _on_message handles a frame whose tag starts with
\* 's1' and whose JSON payload is a dict with status 200, clientToken c and
\* serverToken s, then client_token = c, server_token = s, connected is
\* true and the connect callback was invoked exactly once for the frame.
C2_TagStartsWith ==
    (/\ ev.op = "_on_message"
     /\ ev.frame.comma
     /\ StartsWith(ev.frame.head, T_s1)
     /\ ev.frame.data.json = "dict"
     /\ ev.frame.data.status = 200)
    => /\ client_token = ev.frame.data.clientToken
       /\ server_token = ev.frame.data.serverToken
       /\ connected
       /\ ev.cb = <<"connect">>

\* C2 (amended): the same for a frame whose tag equals 's1'.
C2_TagEquals ==
    (/\ ev.op = "_on_message"
     /\ ev.frame.comma
     /\ ev.frame.head = T_s1
     /\ ev.frame.data.json = "dict"
     /\ ev.frame.data.status = 200)
    => /\ client_token = ev.frame.data.clientToken
       /\ server_token = ev.frame.data.serverToken
       /\ connected
       /\ ev.cb = <<"connect">>

\* C2 witness: _on_message has just handled "s1,{status: 200, clientToken:
\* c1, serverToken: s1}" and the tokens are stored.
C2_Witness ==
    /\ ev.op = "_on_message"
    /\ ev.frame = Frame(T_s1, Ok200("c1", "s1"))
    /\ client_token = "c1"
    /\ server_token = "s1"

\* C7: when disconnect() returns from a call made on a connected
\* connection, the transport's close was invoked, connected and
\* authenticated are false (the connection is disconnected).
C7_DisconnectPost ==
    (ev.op = "disconnect" /\ ev.result.wasConnected)
    => /\ ev.result.closeInvoked
       /\ ~connected
       /\ ~authenticated

\* C8: from the start of a user's disconnect() until the next explicit
\* connect(), no reconnect attempt is scheduled or run and no new transport
\* is opened.
C8_NoReconnectAfterDisconnect ==
    user_closed =>
        /\ ~(ev.op = "_on_close" /\ ev.result = "reconnect")
        /\ ev.op # "reconnect_connect"

\* the elements of a sequence
Range(s) == {s[i] : i \in DOMAIN s}

\* the calls of the application's callbacks for `event` made by the last step
AppCalls(event) ==
    SelectSeq(i_ev.calls, LAMBDA c : c.event = event /\ c.cb \in {"app", "app_once"})

\* C3: after a 401 challenge (the client holds a QR code), when the
\* connection has processed "s1,{status: 200, clientToken: c1, serverToken:
\* s1}", the client's authenticated flag is true, the application's
\* authenticated callback was called, and the tokens c1 and s1 are recorded
\* on the connection.
C3_Authenticated ==
    (/\ i_ev.op = "_process_message"
     /\ i_ev.frame = Frame(T_s1, Ok200("c1", "s1"))
     /\ qr_code # NoVal
     /\ "app" \in Range(i_listeners["authenticated"]))
    => /\ c_authenticated
       /\ AppCalls("authenticated") # <<>>
       /\ i_client_token = "c1"
       /\ i_server_token = "s1"

\* C4: when a connected client has processed "s1,{status: 401, ref: abc}",
\* the application's QR-code callback was called exactly once for the frame
\* and the call delivers abc as the code.
C4_QrOnce ==
    (/\ i_ev.op = "_process_message"
     /\ i_ev.frame = Frame(T_s1, Qr401("abc"))
     /\ i_state = "connected"
     /\ "app" \in Range(i_listeners["qr_code"]))
    => /\ Len(AppCalls("qr_code")) = 1
       /\ \E k \in DOMAIN AppCalls("qr_code")[1].data : AppCalls("qr_code")[1].data[k] = "abc"

\* C5: a send_message call made while the client is not authenticated
\* raises an error to the caller, returns no message id and writes no frame.
C5_SendUnauthenticated ==
    (r_ev.op = "send_message" /\ ~r_ev.result.pre)
    => /\ r_ev.result.raised # "none"
       /\ r_ev.result.ret = "none"
       /\ r_ev.wrote = <<>>

\* C6: a send made while the connection is not connected raises
\* WAConnectionError, writes nothing to the WebSocket and returns no tag.
C6_SendNotConnected ==
    (r_ev.op = "_send_json" /\ ~r_ev.result.pre)
    => /\ r_ev.result.raised = "WAConnectionError"
       /\ r_ev.result.ret = "none"
       /\ r_ev.wrote = <<>>

\* C9: when _on_close has handled the close of the transport and the
\* state was Connected: if the close was started by the user's disconnect()
\* the state is Disconnected and no reconnect was scheduled; otherwise the
\* state is Reconnecting and a reconnect was scheduled.
C9_CloseRule ==
    (r_ev.op = "_on_close" /\ r_ev.result.pre)
    => IF r_ev.result.how = "disconnect"
       THEN r_state = "disconnected" /\ ~r_ev.result.scheduled
       ELSE r_state = "reconnecting" /\ r_ev.result.scheduled

\* C10: once MAX_RECONNECT_ATTEMPTS automatic reconnect attempts in a row
\* have failed without a successful connect, no task started by the
\* connection schedules or runs a further reconnect attempt.
C10_Capped ==
    ~(/\ i_fails >= MAX_RECONNECT_ATTEMPTS
      /\ i_ev.op = "reconnect"
      /\ i_ev.t # 0
      /\ i_ev.result \in {"sleep", "connecting"})

C12_Step ==
    (/\ r_ev'.op = "_on_message"
     /\ r_ev'.frame.comma
     /\ r_ev'.frame.head \in r_pending)
    => /\ r_ev'.result.waiter = [tag |-> r_ev'.frame.head, data |-> r_ev'.frame.data]
       /\ r_pending' = r_pending \ {r_ev'.frame.head}
       /\ "message" \notin Range(r_ev'.cb)

C12_MatchedRequest == [][C12_Step]_vars

\* C13: a step in which _on_message handles a frame whose tag matches no
\* pending request, and which is neither a pong frame nor an 's1' status
\* frame, calls the registered message callback, whatever the tag, and
\* leaves the pending set unchanged.
C13_Step ==
    (/\ r_ev'.op = "_on_message"
     /\ r_ev'.frame.comma
     /\ ~StartsWith(r_ev'.frame.head, T_pong)
     /\ r_ev'.frame.head \notin r_pending
     /\ ~(r_ev'.frame.head = T_s1 /\ r_ev'.frame.data.status \in {200, 401})
     /\ r_callbacks)
    => /\ r_ev'.cb = <<"message">>
       /\ r_pending' = r_pending

C13_UnmatchedDispatched == [][C13_Step]_vars

\* C14: once disconnect() has closed the connection or _on_close has
\* handled its close, and the state is Disconnected, no request is pending
\* any more.
C14_NoDanglingRequest ==
    (/\ (r_ev.op = "disconnect" /\ r_ev.result.pre) \/ r_ev.op = "_on_close"
     /\ r_state = "disconnected")
    => r_pending = {}

\* C15: when connect() could not establish the transport, a connection
\* error was raised to its caller, the state is Disconnected and the
\* failure scheduled no reconnect attempt.
C15_ConnectFailureRaises ==
    (r_ev.op = "connect" /\ r_ev.result.how = "failed")
    => /\ r_ev.result.raised = "WAConnectionError"
       /\ r_state = "disconnected"
       /\ ~r_ev.result.scheduled

\* C16: when wait_for_authentication returns, it has raised nothing and
\* it returns True if and only if the client became authenticated before
\* the wait ended.
C16_WaitResult ==
    r_ev.op = "wait_for_authentication"
    => /\ r_ev.result.raised = "none"
       /\ (r_ev.result.ret = "True") <=> r_ev.result.pre

\* C17: a send_message call made while the client is authenticated returns
\* a message id and writes exactly one frame, and the tag of that frame is
\* registered as a pending request (its acknowledgement is awaited).
C17_SendAuthenticated ==
    (r_ev.op = "send_message" /\ r_ev.result.pre)
    => /\ r_ev.result.ret = "message_id"
       /\ Len(r_ev.wrote) = 1
       /\ r_ev.wrote[1] \in r_pending

\* C18 as stated: for a reconnection manager that is not reset, each
\* next-delay call returns a delay no smaller than the call before it, never
\* above the configured maximum delay, and equal to the maximum once the
\* maximum has been reached.
C18_DelaysMonotone ==
    (b_prev.valid /\ b_last.valid) =>
        /\ b_prev.delay <= b_last.delay
        /\ b_last.delay <= MAX_RECONNECT_DELAY_MS * Scale * 10
        /\ b_prev.delay >= MAX_RECONNECT_DELAY_MS * Scale * 10
               => b_last.delay = MAX_RECONNECT_DELAY_MS * Scale * 10

\* C18 amended: for a reconnection manager that is not reset, the base delay
\* of successive next-delay calls (the delay before the random jitter) is
\* non-decreasing until the configured maximum delay is reached and stays
\* clamped at that maximum afterwards; the delay a call returns is its base
\* delay times a jitter factor between 0.8 and 1.2.
C18_BaseMonotone ==
    (b_prev.valid /\ b_last.valid) =>
        /\ b_prev.base <= b_last.base
        /\ b_last.base <= MAX_RECONNECT_DELAY_MS * Scale
        /\ b_prev.base = MAX_RECONNECT_DELAY_MS * Scale
               => b_last.base = MAX_RECONNECT_DELAY_MS * Scale
        /\ b_last.base * (10 - RandomTenths) <= b_last.delay
        /\ b_last.delay <= b_last.base * (10 + RandomTenths)

\* two successive calls at the clamped base, the later one returning less
C18_Witness ==
    /\ b_prev.valid
    /\ b_last.valid
    /\ b_prev.base = MAX_RECONNECT_DELAY_MS * Scale
    /\ b_last.base = MAX_RECONNECT_DELAY_MS * Scale
    /\ b_last.delay < b_prev.delay

\* C19: a step in which encrypt_message is called for a peer that has no
\* session in memory and no session file in storage raises the encryption
\* error, returns no blob, and leaves the sessions in memory and the files
\* in storage as they were: no session is created for that peer.
C19_Step ==
    (/\ sp_ev'.op = "encrypt_message"
     /\ ~sp_sessions[sp_ev'.peer].present
     /\ ~sp_files[sp_ev'.peer].exists)
    => /\ sp_ev'.raised = "WAEncryptionError"
       /\ sp_sessions' = sp_sessions
       /\ sp_files' = sp_files
       /\ sp_blob' = sp_blob

C19_NoImplicitSession == [][C19_Step]_vars

\* encrypt_message has just failed for a peer without a session anywhere,
\* while the other peer has one
C19_Witness ==
    /\ sp_ev.op = "encrypt_message"
    /\ sp_ev.raised = "WAEncryptionError"
    /\ ~sp_sessions[sp_ev.peer].present
    /\ ~sp_files[sp_ev.peer].exists
    /\ \E q \in Peers : q # sp_ev.peer /\ sp_sessions[q].present

\* C20: whenever decrypt_message is given the blob encrypt_message last
\* returned, for the peer it was encrypted for and with that peer's session
\* (or the session keys) still the one it was encrypted under, it raises
\* nothing and returns exactly the plaintext that was encrypted, the empty
\* one included; this holds of SignalProtocol and of WAEncryption.
C20_DecryptEncrypt ==
    /\ (/\ sp_ev.op = "decrypt_message"
        /\ sp_blob.peer # ""
        /\ sp_ev.peer = sp_blob.peer
        /\ sp_ev.content = sp_blob.bytes
        /\ sp_sessions[sp_blob.peer] = sp_blob.session)
       => /\ sp_ev.raised = "none"
          /\ sp_ev.out = sp_blob.md
    /\ (/\ wa_ev.op = "decrypt_message"
        /\ wa_blob.bytes # <<>>
        /\ wa_ev.content = wa_blob.bytes
        /\ wa_keys = wa_blob.keys)
       => /\ wa_ev.raised = "none"
          /\ wa_ev.out = wa_blob.message

\* the blob of the empty message data has just been decrypted under a
\* session that was loaded or established
C20_Witness ==
    /\ sp_ev.op = "decrypt_message"
    /\ sp_ev.raised = "none"
    /\ sp_blob.md = NoText
    /\ sp_ev.peer = sp_blob.peer
    /\ sp_ev.content = sp_blob.bytes
    /\ sp_ev.out = NoText

\* two byte strings of one length that differ in exactly one position
SingleByteChange(a, b) ==
    /\ Len(a) = Len(b)
    /\ Cardinality({i \in 1..Len(a) : a[i] # b[i]}) = 1

\* C21: a step in which decrypt_message is given, for the peer it was
\* encrypted for, the last encrypted blob with one byte changed raises the
\* decryption error and returns no plaintext; the sessions, the session
\* files, the session keys and the blob are left as they were, and the
\* unchanged blob still decrypts to its plaintext afterwards.  This is
\* stated of SignalProtocol and of WAEncryption.
C21_Step ==
    /\ (/\ sp_ev'.op = "decrypt_message"
        /\ sp_blob.peer # ""
        /\ sp_ev'.peer = sp_blob.peer
        /\ SingleByteChange(sp_ev'.content, sp_blob.bytes))
       => /\ sp_ev'.raised = "WAEncryptionError"
          /\ sp_ev'.out = NoText
          /\ sp_files' = sp_files
          /\ sp_blob' = sp_blob
          /\ \A q \in Peers : (q # sp_blob.peer \/ sp_sessions[q].present)
                                  => sp_sessions'[q] = sp_sessions[q]
          /\ sp_sessions'[sp_blob.peer] = sp_blob.session
                => decrypt_content(sp_sessions'[sp_blob.peer], sp_blob.bytes)
                       = [ok |-> TRUE, v |-> sp_blob.md]
    /\ (/\ wa_ev'.op = "decrypt_message"
        /\ SingleByteChange(wa_ev'.content, wa_blob.bytes))
       => /\ wa_ev'.raised = "ValueError"
          /\ wa_ev'.out = <<>>
          /\ wa_keys' = wa_keys
          /\ wa_blob' = wa_blob
          /\ wa_keys' = wa_blob.keys
                => wa_decrypt(wa_keys', wa_blob.bytes) = Okay(wa_blob.message)

C21_TamperFails == [][C21_Step]_vars

\* a blob with one byte changed has just been refused although the peer's
\* session is the one it was encrypted under
C21_Witness ==
    /\ sp_ev.op = "decrypt_message"
    /\ sp_ev.raised = "WAEncryptionError"
    /\ sp_ev.peer = sp_blob.peer
    /\ SingleByteChange(sp_ev.content, sp_blob.bytes)
    /\ sp_sessions[sp_blob.peer] = sp_blob.session

\* C22: when a reconnect task of the connection has scheduled a retry, the
\* attempt counter has counted every automatic reconnect attempt that has
\* failed in a row since the last successful connect, and this retry: it is
\* at least k for the k-th such attempt, which therefore waits no less than
\* the base delay min(initialDelay x decayFactor^(k-1), maxDelay).
C22_AttemptCounts ==
    (/\ i_ev.op = "reconnect"
     /\ i_ev.t # 0
     /\ i_ev.result = "sleep"
     /\ i_fails < MAX_RECONNECT_ATTEMPTS)
    => /\ attempt_count >= i_fails + 1
       /\ base_delay_ms(attempt_count) >= base_delay_ms(i_fails + 1)

\* C23: attempt_count never exceeds max_attempts; a next-delay call returns
\* the no-retry signal exactly when can_retry() was false before it, that is
\* when max_attempts calls have been made since the last reset, and such a
\* call leaves the counter as it was; any other call adds one to it.
C23_Step ==
    /\ b_attempt_count' <= MAX_RECONNECT_ATTEMPTS
    /\ (b_calls' >= 1 /\ ~b_last'.valid) => b_attempt_count' = MAX_RECONNECT_ATTEMPTS
    /\ (b_calls' >= 1 /\ backoffVars' # backoffVars)
          => /\ b_last'.valid = can_retry
             /\ b_attempt_count' = IF can_retry THEN b_attempt_count + 1 ELSE b_attempt_count

C23_CapAndCanRetry == [][C23_Step]_vars

\* two calls in a row have returned the no-retry signal at the cap
C23_Witness ==
    /\ b_attempt_count = MAX_RECONNECT_ATTEMPTS
    /\ b_calls = 2
    /\ ~b_last.valid
    /\ ~b_prev.valid

\* C24: no two calls of a message tag generator, whichever threads make
\* them, return the same tag.
C24_UniqueTags ==
    \A i, j \in DOMAIN tg_tags : i # j => tg_tags[i] # tg_tags[j]

\* C25: at no time are two threads inside a socket write of the same
\* transport, be they a keep-alive worker and a caller of send_message or
\* two callers.
C25_WritesSerialized == Cardinality(InSend) <= 1

\* C26: during disconnect() the keep-alive is cancelled before the socket is
\* closed: once disconnect() has called ws.close(), no keep-alive worker is
\* left running that could tick against the closed socket.
C26_KeepaliveStoppedBeforeClose ==
    (upc \in {"disconnect_138", "disconnect_140", "disconnect_141"} /\ dcall.closeInvoked)
        => keepalive_workers = 0

\* C27: an inbound frame without a tag/payload separator is skipped: the
\* step that handles it invokes no callback and emits no event, writes
\* nothing, leaves the connection state, the tokens and the transport as
\* they were, and leaves the reader ready for the next frame.
C27_Step ==
    /\ (ev'.op = "_on_message" /\ ~ev'.frame.comma)
       => /\ ev'.cb = <<>>
          /\ ev'.wrote = <<>>
          /\ UNCHANGED <<ws, connected, authenticated, client_token, server_token,
                         reconnect_attempts, sock, keepalive_workers, upc>>
          /\ \E id \in SockIds : tpc[id] = "msg" /\ tpc' = [tpc EXCEPT ![id] = "run"]
    /\ (i_ev'.op = "_listen_for_messages" /\ i_ev'.result = "skipped" /\ ~i_ev'.frame.comma)
       => /\ i_ev'.calls = <<>>
          /\ UNCHANGED <<i_state, i_authenticated, i_closing, i_ws, i_client_token,
                         i_server_token, attempt_count, i_listener, i_keepalive, i_task,
                         c_authenticated, qr_code, i_listeners, i_once>>

C27_MalformedSkipped == [][C27_Step]_vars

\* _on_message has just skipped the frame "q1" on a connection that holds
\* its tokens and is still connected, its reader ready for the next frame
C27_Witness ==
    /\ ev.op = "_on_message"
    /\ ev.frame = [head |-> T_q1, comma |-> FALSE, data |-> NoData]
    /\ ev.result = "malformed"
    /\ connected
    /\ client_token = "c1"
    /\ \E id \in SockIds : sock[id] = "open" /\ tpc[id] = "run"

\* C28: decoding input that holds an out-of-range dictionary index, a length
\* prefix that runs past the end of the buffer, or an unknown leading tag
\* byte fails; no node is returned for it.
C28_MalformedInputFails ==
    (cpc = "raw" /\ buffer \in {RawIndexBeyond, RawLengthPastEnd, RawUnknownTag})
        => decoded.err

\* C29: dictionary index 255 and dictionary index 256 both decode to the
\* token at that index of the table, and an index beyond the table fails.
C29_Index255And256 ==
    /\ (cpc = "raw" /\ buffer = RawContentIndex255)
       => ~decoded.err /\ decoded.val.content = Str(TokenAt(255))
    /\ (cpc = "raw" /\ buffer = RawContentIndex256)
       => ~decoded.err /\ decoded.val.content = Str(TokenAt(256))
    /\ (cpc = "raw" /\ buffer = RawTagIndex256)
       => ~decoded.err /\ decoded.val.tag = TokenAt(256)
    /\ (cpc = "raw" /\ buffer = RawIndexBeyond) => decoded.err

\* s ends with e
EndsWith(s, e) == Len(s) >= Len(e) /\ SubSeq(s, Len(s) - Len(e) + 1, Len(s)) = e

\* the most specific form of a string: its dictionary index (one byte, or
\* page selector and entry for an index from 256 up) when it is in the
\* table, else packed digits when it is all digits, else raw bytes behind
\* their length class
ExpectedForm(s) ==
    IF \E i \in 1..Len(TOKENS) : TOKENS[i] = s
    THEN IF find_token_index(s) < SINGLE_BYTE_MAX
         THEN <<find_token_index(s)>>
         ELSE <<DICTIONARY_0 + ((find_token_index(s) - SINGLE_BYTE_MAX) \div 256),
                (find_token_index(s) - SINGLE_BYTE_MAX) % 256>>
    ELSE IF isdigit(s)
         THEN <<NIBBLE_8, Len(s) + (Len(s) % 2)>> \o PackDigits(s, 1)
         ELSE LengthClass(Len(Utf8Encode(s))) \o Utf8Encode(s)

\* C30: the encoder writes each string in the most specific applicable
\* form: the bytes of an encoded node end with that form of its string
\* content, or of its last attribute's string value when it has no content.
C30_MostSpecificForm ==
    (cpc = "encoded" /\ ~encErr) =>
        /\ (node.content.k = "str" /\ ~Contains(node.content.v, AT))
           => EndsWith(buffer, ExpectedForm(node.content.v))
        /\ (/\ node.content.k = "none"
            /\ node.attrs # <<>>
            /\ node.attrs[Len(node.attrs)].value.k = "str"
            /\ ~Contains(node.attrs[Len(node.attrs)].value.v, AT))
           => EndsWith(buffer, ExpectedForm(node.attrs[Len(node.attrs)].value.v))

\* C31: a JID value (text holding '@') is written in the dedicated JID
\* form wherever it appears: the bytes of an encoded node end with that form
\* of its JID content, or of its last attribute's JID value, under any key,
\* when it has no content; and the decoded node holds the same text again.
C31_JidForm ==
    /\ (cpc = "encoded" /\ ~encErr) =>
        /\ (node.content.k = "str" /\ Contains(node.content.v, AT))
           => EndsWith(buffer, write_jid(node.content.v).out)
        /\ (/\ node.content.k = "none"
            /\ node.attrs # <<>>
            /\ node.attrs[Len(node.attrs)].value.k = "str"
            /\ Contains(node.attrs[Len(node.attrs)].value.v, AT))
           => EndsWith(buffer, write_jid(node.attrs[Len(node.attrs)].value.v).out)
    /\ (/\ cpc = "decoded"
        /\ node.content.k = "none"
        /\ node.attrs # <<>>
        /\ node.attrs[Len(node.attrs)].value.k = "str"
        /\ Contains(node.attrs[Len(node.attrs)].value.v, AT))
       => /\ ~decoded.err
          /\ Len(decoded.val.attrs) = Len(node.attrs)
          /\ decoded.val.attrs[Len(node.attrs)].value = node.attrs[Len(node.attrs)].value

\* C32: a pairing challenge is consumed by a successful verification: no
\* challenge is verified successfully a second time.
C32_ChallengeConsumedOnce == a_verified <= 1

\* C33: establishing a session succeeds for a peer bundle with a one-time
\* prekey and for one without: after establish_session nothing was raised
\* and a session is stored under the peer's id.
C33_EstablishWithAndWithoutPrekey ==
    sp_ev.op = "establish_session"
        => sp_ev.raised = "none" /\ sp_sessions[sp_ev.peer].present

\* the calls of the once() callback for `event` made by the step's dispatch
OnceCalls(event) ==
    SelectSeq(i_ev'.calls, LAMBDA c : c.event = event /\ c.cb = "app_once")

\* C34: a callback registered with once() is invoked exactly once, on the
\* first emission of its event after registration, and never again, also
\* when a listener emits the event again during that dispatch: a step calls
\* it only if it was registered, then exactly once and it is registered no
\* longer; a step that processes a QR challenge while it is registered
\* calls it.
C34_Step ==
    \A e \in OnceEvents :
        /\ OnceCalls(e) # <<>>
           => /\ Contains(i_once[e], "app_once")
              /\ Len(OnceCalls(e)) = 1
              /\ ~Contains(i_once'[e], "app_once")
        /\ (/\ e = "qr_code"
            /\ Contains(i_once[e], "app_once")
            /\ i_ev'.op = "_process_message"
            /\ i_ev'.frame = Frame(T_s1, Qr401("abc")))
           => Len(OnceCalls(e)) = 1

C34_OnceExactlyOnce == [][C34_Step]_vars

\* the once() callback has just been called for a QR challenge that the
\* client's own listener emitted again, and is registered no longer
C34_Witness ==
    /\ i_ev.op = "_process_message"
    /\ i_ev.frame = Frame(T_s1, Qr401("abc"))
    /\ Len(SelectSeq(i_ev.calls, LAMBDA c : c.cb = "app_once")) = 1
    /\ Len(SelectSeq(i_ev.calls, LAMBDA c : c.cb = "app" /\ c.event = "qr_code")) > 1
    /\ i_once["qr_code"] = <<>>

\* C35: a change of connection state results in exactly one
\* CONNECTION_STATE notification for the application's listener: no step
\* calls the listener twice for the same change.
C35_OneStateNotification ==
    \A i, j \in DOMAIN i_ev.calls :
        (/\ i # j
         /\ i_ev.calls[i].event = "conn_state" /\ i_ev.calls[i].cb = "app"
         /\ i_ev.calls[j].event = "conn_state" /\ i_ev.calls[j].cb = "app")
        => i_ev.calls[i].data # i_ev.calls[j].data

\* C36: at most one keep-alive worker is active for a connection at any
\* time.
C36_OneKeepaliveWorker == keepalive_workers <= 1

\* C37: in every reachable state authenticated implies connected: a client
\* whose connection is closed or lost has its authenticated flag cleared.
C37_AuthenticatedImpliesConnected == r_authenticated => r_state = "connected"

\* C38: each loss of connection is handled exactly once: between one
\* successful connect and the next, _handle_connection_closed runs (emits
\* Disconnected and creates a reconnect task) at most once, whether the
\* reader, the keep-alive loop or both detect the loss.
C38_LossHandledOnce == i_handled <= 1

\* C39: when connect() fails it leaves nothing running: no reader task, no
\* keep-alive task and no open transport remain.
C39_FailedConnectLeavesNothing ==
    (i_ev.op = "connect" /\ i_ev.result = "WAConnectionError")
    => i_listener = "none" /\ i_keepalive = "none" /\ i_ws # "open"

\* C40: a newly opened connection is not declared dead because of silence
\* that preceded it: the keep-alive check made when the connection opens
\* does not force-close the transport.
C40_NewConnectionNotStale ==
    (r_ev.op = "_on_open" /\ r_ws # 0) => r_sock[r_ws] # "keepalive"
====
